---------------------------- MODULE Spec2Model ----------------------------
(***************************************************************************)
(* Model of the ew6 pattern-candidate search and evaluation pipeline:      *)
(* leg builder, beam search, rule validator, scorer, NMS deduplicator,     *)
(* backtest simulator, walk-forward evaluator and ranker.                  *)
(*                                                                         *)
(* Numbers.  Python floats are modelled in fixed point:                    *)
(*   - prices and bar/swing indices are integers;                          *)
(*   - scores, confidences and ranking sub-scores are in thousandths;      *)
(*   - returns and costs are in basis points (1/10000);                    *)
(*   - money is in whole currency units, products rounded down.            *)
(* Ratios are compared by cross-multiplication, so range tests are exact.  *)
(***************************************************************************)
EXTENDS Integers, Sequences, FiniteSets, TLC

(***************************************************************************)
(* Bounds of the model                                                     *)
(***************************************************************************)
MaxSkip == 1
MaxGap == 2
MaxBeamWidth == 2
MaxCand == 20
MaxKeepPatterns == 2
MaxItems == 3
MaxIdx == 2
MaxPx == 3
MaxPatterns == 2
MaxJobs == 3
MaxTop == 2
MaxBars == 8

(***************************************************************************)
(* Generic helpers                                                         *)
(***************************************************************************)
Max2(a, b) == IF a >= b THEN a ELSE b
Min2(a, b) == IF a <= b THEN a ELSE b
Abs(a) == IF a >= 0 THEN a ELSE -a

\* Python seq[:k] for k >= 0
Take(s, k) == SubSeq(s, 1, Min2(Len(s), Max2(k, 0)))

\* Python list(range(a, b))
Range(a, b) == [k \in 1..Max2(b - a, 0) |-> a + k - 1]

RECURSIVE SumSeq(_)
SumSeq(s) == IF s = << >> THEN 0 ELSE Head(s) + SumSeq(Tail(s))

\* position of the first element of s whose key is smaller than sc (Len+1 if none)
RECURSIVE FirstLower(_, _, _)
FirstLower(s, sc, j) ==
    IF j > Len(s) THEN j
    ELSE IF s[j].score < sc THEN j
    ELSE FirstLower(s, sc, j + 1)

InsertDesc(s, x) ==
    LET j == FirstLower(s, x.score, 1)
    IN SubSeq(s, 1, j - 1) \o <<x>> \o SubSeq(s, j, Len(s))

\* list.sort(key=score, reverse=True): stable, equal keys keep their order
RECURSIVE SortDescFrom(_, _, _)
SortDescFrom(s, k, acc) ==
    IF k > Len(s) THEN acc ELSE SortDescFrom(s, k + 1, InsertDesc(acc, s[k]))

\* variant: among equal keys the later element first
SortDescTiesReversed(s) ==
    SortDescFrom([k \in 1..Len(s) |-> s[Len(s) + 1 - k]], 1, << >>)

SortDesc(s) == SortDescFrom(s, 1, << >>)


(***************************************************************************)
(* Leg builder: ew6/ew/core/monowave.py                                    *)
(***************************************************************************)
MonoWave(i0, i1, p0, p1) ==
    [start_idx |-> i0, end_idx |-> i1, start_px |-> p0, end_px |-> p1]

direction(mw) ==
    IF mw.end_px > mw.start_px THEN 1
    ELSE IF mw.end_px < mw.start_px THEN -1
    ELSE 0

abs_move(mw) == Abs(mw.end_px - mw.start_px)

\* pts.sort(key=idx): stable insertion by ascending idx
RECURSIVE FirstGreaterIdx(_, _, _)
FirstGreaterIdx(s, ix, j) ==
    IF j > Len(s) THEN j
    ELSE IF s[j].idx > ix THEN j
    ELSE FirstGreaterIdx(s, ix, j + 1)

RECURSIVE SortByIdxFrom(_, _, _)
SortByIdxFrom(s, k, acc) ==
    IF k > Len(s) THEN acc
    ELSE LET j == FirstGreaterIdx(acc, s[k].idx, 1)
         IN SortByIdxFrom(s, k + 1,
                SubSeq(acc, 1, j - 1) \o <<s[k]>> \o SubSeq(acc, j, Len(acc)))

SortByIdx(s) == SortByIdxFrom(s, 1, << >>)

\* pts[::step]
Stride(pts, step) ==
    [k \in 1..((Len(pts) + step - 1) \div step) |-> pts[(k - 1) * step + 1]]

RECURSIVE KeepLegs(_, _, _)
KeepLegs(filtered, k, min_abs_move) ==
    IF k >= Len(filtered) THEN << >>
    ELSE LET mw == MonoWave(filtered[k].idx, filtered[k + 1].idx,
                            filtered[k].px, filtered[k + 1].px)
             rest == KeepLegs(filtered, k + 1, min_abs_move)
         IN IF min_abs_move > 0 /\ abs_move(mw) < min_abs_move
            THEN rest
            ELSE <<mw>> \o rest

\* variant: the final point not put back when the stride misses it
build_monowaves_stride_only(swings, skip, min_abs_move) ==
    IF Len(swings) < 2 THEN << >>
    ELSE KeepLegs(Stride(SortByIdx(swings), Max2(1, skip + 1)), 1, min_abs_move)

build_monowaves_from_swings(swings, skip, min_abs_move) ==
    IF Len(swings) < 2 THEN << >>
    ELSE LET pts == SortByIdx(swings)
             step == Max2(1, skip + 1)
             strided == Stride(pts, step)
             filtered == IF strided[Len(strided)] # pts[Len(pts)]
                         THEN Append(strided, pts[Len(pts)])
                         ELSE strided
         IN KeepLegs(filtered, 1, min_abs_move)

(***************************************************************************)
(* Rule validator: ew6/ew/core/rules_p5.py                                 *)
(***************************************************************************)
NoMeta == [valid |-> FALSE, w4_overlap |-> FALSE]

\* variant: wave-4 overlap as a hard rejection, as in the swing-point validator
is_valid_impulse_hard_w4(win) ==
    IF Len(win) # 5 THEN NoMeta
    ELSE
      LET d == [k \in 1..5 |-> direction(win[k])]
          s == d[1]
          expected == <<s, -s, s, -s, s>>
      IN  IF \E k \in 1..5 : d[k] = 0 THEN NoMeta
          ELSE IF d # expected THEN NoMeta
          ELSE IF s = 1 /\ win[2].end_px <= win[1].start_px THEN NoMeta
          ELSE IF s # 1 /\ win[2].end_px >= win[1].start_px THEN NoMeta
          ELSE IF abs_move(win[3]) <= Min2(abs_move(win[1]), abs_move(win[5]))
               THEN NoMeta
          ELSE IF s = 1 /\ win[4].end_px < win[1].end_px THEN NoMeta
          ELSE IF s # 1 /\ win[4].end_px > win[1].end_px THEN NoMeta
          ELSE [valid |-> TRUE, w4_overlap |-> FALSE]

\* returns (ok, meta) as a record; meta is {} (no flag) when rejected
is_valid_impulse_from_monowaves(win) ==
    IF Len(win) # 5 THEN NoMeta
    ELSE
      LET d == [k \in 1..5 |-> direction(win[k])]
          s == d[1]
          expected == <<s, -s, s, -s, s>>
          p0 == win[1].start_px
          p1 == win[1].end_px
          p2 == win[2].end_px
          p4 == win[4].end_px
          w1 == abs_move(win[1])
          w3 == abs_move(win[3])
          w5 == abs_move(win[5])
      IN  IF \E k \in 1..5 : d[k] = 0 THEN NoMeta
          ELSE IF d # expected THEN NoMeta
          ELSE IF s = 1 /\ p2 <= p0 THEN NoMeta
          ELSE IF s # 1 /\ p2 >= p0 THEN NoMeta
          ELSE IF w3 <= Min2(w1, w5) THEN NoMeta
          ELSE [valid |-> TRUE,
                w4_overlap |-> IF s = 1 THEN p4 < p1 ELSE p4 > p1]

(***************************************************************************)
(* Scorer: ew6/ew/core/scorer.py   (scores in thousandths)                 *)
(***************************************************************************)
FibW2Lo == 236
FibW2Hi == 786
FibW3Lo == 1000
FibW3Hi == 2618
FibW4Lo == 236
FibW4Hi == 786
OverlapPenalty == 2500
ExtremePenalty == 1000
ConfMidpoint == 2500

\* binary64 evaluation of line 71, arguments in thousandths:
\* 1.0 + exp(-x) rounds to 1.0 once exp(-x) <= 2^-53, that is x >= 53 ln 2
DoubleOneAbove == 36737
\* math.exp(y) raises OverflowError for y above ln(max double)
ExpOverflowAbove == 709782

\* 1000 * exp(-k/4) for k = 0..16, rounded; the fixed-point image of math.exp
ExpTable == <<1000, 779, 607, 472, 368, 287, 223, 174, 135, 105, 82, 64, 50,
              39, 30, 24, 18>>

\* 1000 * exp(-tm/1000) for tm >= 0, evaluated at the next quarter step
ExpNegMilli(tm) ==
    LET k == (tm + 249) \div 250
    IN IF k <= 16 THEN ExpTable[k + 1] ELSE 0

\* _within(x, lo, hi) for x = a/b (b > 0), lo and hi in thousandths
within(a, b, lo, hi) ==
    IF lo * b <= 1000 * a /\ 1000 * a <= hi * b THEN 1000
    ELSE IF 1000 * a < lo * b
         THEN IF lo > 0
              THEN ExpNegMilli(2000 - (2000000 * a) \div (b * lo))
              ELSE 0
         ELSE IF hi > 0
              THEN ExpNegMilli((2000000 * a) \div (b * hi) - 2000)
              ELSE 0

MinOf5(m) == Min2(m[1], Min2(m[2], Min2(m[3], Min2(m[4], m[5]))))
MaxOf5(m) == Max2(m[1], Max2(m[2], Max2(m[3], Max2(m[4], m[5]))))

\* score_impulse with the wave-4 term weighted 2.0 like the other two
score_impulse_even(legs, w4_overlap) ==
    IF Len(legs) # 5 THEN 0
    ELSE
      LET m == [k \in 1..5 |-> Abs(legs[k].end_px - legs[k].start_px)]
          span == legs[5].end_idx - legs[1].start_idx
      IN  IF MinOf5(m) <= 0 THEN 0
          ELSE 2 * within(m[2], m[1], FibW2Lo, FibW2Hi)
             + 2 * within(m[3], m[1], FibW3Lo, FibW3Hi)
             + 2 * within(m[4], m[3], FibW4Lo, FibW4Hi)
             + (IF m[3] > Min2(m[1], m[5]) THEN 1000 ELSE 0)
             - (IF w4_overlap THEN OverlapPenalty ELSE 0)
             - (IF MaxOf5(m) > 10 * MinOf5(m) THEN ExtremePenalty ELSE 0)
             + Min2(Max2(2 * span, 0), 500)

\* score_impulse(pattern) with pattern = (legs, w4_overlap flag of its meta)
score_impulse(legs, w4_overlap) ==
    IF Len(legs) # 5 THEN 0
    ELSE
      LET m == [k \in 1..5 |-> Abs(legs[k].end_px - legs[k].start_px)]
          span == legs[5].end_idx - legs[1].start_idx
      IN  IF MinOf5(m) <= 0 THEN 0
          ELSE 2 * within(m[2], m[1], FibW2Lo, FibW2Hi)
             + 2 * within(m[3], m[1], FibW3Lo, FibW3Hi)
             + (3 * within(m[4], m[3], FibW4Lo, FibW4Hi)) \div 2
             + (IF m[3] > Min2(m[1], m[5]) THEN 1000 ELSE 0)
             - (IF w4_overlap THEN OverlapPenalty ELSE 0)
             - (IF MaxOf5(m) > 10 * MinOf5(m) THEN ExtremePenalty ELSE 0)
             + Min2(Max2(2 * span, 0), 500)

\* the logistic with the sign of its argument turned
confidence_falling(score) ==
    IF ConfMidpoint - score >= DoubleOneAbove THEN 1000
    ELSE IF score <= ConfMidpoint
    THEN Min2(999, 1000000 \div (1000 + ExpNegMilli(ConfMidpoint - score)))
    ELSE (1000 * ExpNegMilli(score - ConfMidpoint))
            \div (1000 + ExpNegMilli(score - ConfMidpoint))

\* math.exp(-(score - 2.5)) of line 71 raises OverflowError
exp_overflows(score) == ConfMidpoint - score > ExpOverflowAbove

\* confidence_from_score: 1000 / (1 + exp(-(score - 2.5))), rounded down;
\* exactly 1000 only where the binary64 sum 1.0 + exp(..) is 1.0
confidence_from_score(score) ==
    IF score - ConfMidpoint >= DoubleOneAbove THEN 1000
    ELSE IF score >= ConfMidpoint
    THEN Min2(999, 1000000 \div (1000 + ExpNegMilli(score - ConfMidpoint)))
    ELSE (1000 * ExpNegMilli(ConfMidpoint - score))
            \div (1000 + ExpNegMilli(ConfMidpoint - score))

(***************************************************************************)
(* State                                                                   *)
(***************************************************************************)
VARIABLES
    \* scan_impulses_from_swings / beam_search
    pc,            \* position of the scan: start, beam_gen, beam_layer_end,
                   \*   beam_done, nms_start, nms, done, idle
    swings,        \* input swing points, records [idx, px]
    cfg,           \* AnalyzerConfig
    mws,           \* leg array built from the swings
    beam,          \* current beam: records [tup, score]
    next_beam,     \* prefixes generated in the current layer
    generated,     \* global counter of generated prefixes
    li,            \* current layer (1-based)
    bi,            \* position in beam of the prefix being expanded
    ii,            \* position in the layer of the next item
    tuples_scores, \* result of beam_search
    \* nms_by_span
    nms_items,     \* input items
    overlap_thresh,\* threshold in thousandths
    max_keep,
    ordered,       \* items sorted by descending score
    npos,          \* position in ordered of the next item to visit
    kept,          \* accepted items
    \* is_valid_impulse_from_monowaves on its own
    rpc,           \* idle, call, done
    rmws,          \* the legs handed to the validator
    verdict,       \* its result: [valid, w4_overlap]
    \* backtest_patterns
    btpc,          \* idle, loop, done
    patterns,      \* input patterns
    btcfg,         \* initial_cash, risk_fraction, min_confidence, fee_bps,
                   \*   slippage_bps
    pi,            \* 0-based position of the next pattern (enumerate's i)
    equity,
    curve,
    trades,
    wins,
    rets,
    gross_wins,
    gross_losses,
    report,
    \* cli.main job loop and rank_results
    clipc,         \* idle, jobs, done
    reco_input,    \* (symbol, timeframe, meta) per finished job
    rank_top,
    rank_oos_weight, \* thousandths
    ranked,
    \* walk_forward_metrics
    wfpc,          \* idle, start, stability, oos, done, raised
    wfin,          \* arguments: n, splits, min_bars_per_split, mode,
                   \*   train_bars, test_bars, step_bars, and the pipeline API
    wfloc,         \* locals: splits, test_bars, step, train_bars, seg,
                   \*   splits_eff, k, train_end
    selected,      \* slices handed to _run_on_slice so far
    fold_ret,
    fold_start,
    fold_end,
    wfres,         \* returned mapping, or the error raised
    \* score_impulse and confidence_from_score on their own
    scpc,          \* idle, call, done
    sc_legs,       \* the legs of the pattern scored
    sc_overlap,    \* its w4_overlap flag
    sc_score,      \* score_impulse of it
    sc_conf,       \* confidence_from_score of that score
    cfpc,          \* idle, call, done, raised
    cf_a,          \* two scores
    cf_b,
    cf_out         \* their confidences

scanVars == <<pc, swings, cfg, mws, beam, next_beam, generated, li, bi, ii,
              tuples_scores>>
nmsVars == <<nms_items, overlap_thresh, max_keep, ordered, npos, kept>>
rulesVars == <<rpc, rmws, verdict>>
btVars == <<btpc, patterns, btcfg, pi, equity, curve, trades, wins, rets,
            gross_wins, gross_losses, report>>
cliVars == <<clipc, reco_input, rank_top, rank_oos_weight, ranked>>
wfVars == <<wfpc, wfin, wfloc, selected, fold_ret, fold_start, fold_end, wfres>>
scoreVars == <<scpc, sc_legs, sc_overlap, sc_score, sc_conf>>
confVars == <<cfpc, cf_a, cf_b, cf_out>>

(***************************************************************************)
(* Candidate generator: ew6/ew/detectors/analyzer.py                       *)
(***************************************************************************)
\* sentinels of score_prefix in thousandths: -1e3 and -1e6 exactly; -1e9 is
\* saturated at the 32-bit range, which keeps it below the other two
SentOverflow == -2000000000
SentInvalid == -1000000000
SentAlternation == -1000000

\* variant: start indices stop one short
layers_short(n, max_gap) ==
    <<Range(0, Max2(0, n - 5))>> \o [k \in 1..4 |-> Range(1, max_gap + 2)]

layers_(n, max_gap) ==
    <<Range(0, Max2(0, n - 4))>> \o [k \in 1..4 |-> Range(1, max_gap + 2)]

\* absolute leg indices (0-based) of a prefix (i0, d1, d2, ...)
RECURSIVE Idxs(_)
Idxs(tup) ==
    IF Len(tup) = 0 THEN << >>
    ELSE IF Len(tup) = 1 THEN <<tup[1]>>
    ELSE LET pre == Idxs(SubSeq(tup, 1, Len(tup) - 1))
         IN Append(pre, pre[Len(pre)] + tup[Len(tup)])

Window(legs, idxs) == [k \in 1..Len(idxs) |-> legs[idxs[k] + 1]]

\* variant: 0.05 * sum(gap), a contiguous tuple penalised as well
GapPenaltyPerStep(tup) == 50 * SumSeq([k \in 1..(Len(tup) - 1) |-> tup[k + 1]])

\* 0.05 * sum(gap - 1), in thousandths
GapPenalty(tup) == 50 * SumSeq([k \in 1..(Len(tup) - 1) |-> tup[k + 1] - 1])

score_prefix(tup, legs) ==
    IF Len(tup) = 0 THEN 0
    ELSE
      LET idxs == Idxs(tup)
          n == Len(legs)
      IN  IF idxs[Len(idxs)] >= n THEN SentOverflow
          ELSE IF Len(idxs) = 5
          THEN LET win == Window(legs, idxs)
                   vm == is_valid_impulse_from_monowaves(win)
               IN IF ~vm.valid THEN SentInvalid
                  ELSE score_impulse(win, vm.w4_overlap) - GapPenalty(tup)
          ELSE IF Len(idxs) >= 2
          THEN LET dirs == [k \in 1..Len(idxs) |-> direction(legs[idxs[k] + 1])]
               IN IF \E k \in 1..Len(dirs) : dirs[k] = 0 THEN SentOverflow
                  ELSE IF \E k \in 1..Len(dirs) :
                            dirs[k] # (IF k % 2 = 1 THEN dirs[1] ELSE -dirs[1])
                       THEN SentAlternation
                       ELSE 0
          ELSE 0

Layers == layers_(Len(mws), cfg.max_gap)

\* where the two nested for-loops of beam_search stand for layer l and beam b
LoopEntry(b, l) ==
    IF Len(b) > 0 /\ Len(Layers[l]) > 0 THEN "beam_gen" ELSE "beam_layer_end"

\* build_monowaves_from_swings called on its own
BuildCall ==
    /\ pc = "build"
    /\ mws' = build_monowaves_from_swings(swings, cfg.monowave_skip,
                                          cfg.min_leg_abs_move)
    /\ pc' = "built"
    /\ UNCHANGED <<swings, cfg, beam, next_beam, generated, li, bi, ii,
                   tuples_scores>>
    /\ UNCHANGED <<nmsVars, rulesVars, btVars, cliVars, wfVars, scoreVars, confVars>>

\* scan_impulses_from_swings lines 73-86 and beam_search lines 32-33
ScanStart ==
    /\ pc = "start"
    /\ LET m == build_monowaves_from_swings(swings, cfg.monowave_skip,
                                            cfg.min_leg_abs_move)
       IN /\ mws' = m
          /\ beam' = <<[tup |-> << >>, score |-> 0]>>
          /\ next_beam' = << >>
          /\ generated' = 0
          /\ li' = 1
          /\ bi' = 1
          /\ ii' = 1
          /\ IF Len(m) < 5
             THEN pc' = "done"
             ELSE pc' = IF Len(layers_(Len(m), cfg.max_gap)[1]) > 0
                        THEN "beam_gen" ELSE "beam_layer_end"
    /\ UNCHANGED <<swings, cfg, tuples_scores>>
    /\ UNCHANGED <<nmsVars, rulesVars, btVars, cliVars, wfVars, scoreVars, confVars>>

\* beam_search lines 45-54: one prefix generated and scored
BeamGen ==
    /\ pc = "beam_gen"
    /\ LET layer == Layers[li]
           cand == beam[bi].tup \o <<layer[ii]>>
           s == score_prefix(cand, mws)
       IN /\ next_beam' = Append(next_beam, [tup |-> cand, score |-> s])
          /\ generated' = generated + 1
          /\ IF generated + 1 >= cfg.max_candidates
             THEN /\ pc' = "beam_layer_end"
                  /\ UNCHANGED <<bi, ii>>
             ELSE IF ii < Len(layer)
             THEN /\ ii' = ii + 1
                  /\ UNCHANGED <<bi, pc>>
             ELSE IF bi < Len(beam)
             THEN /\ bi' = bi + 1
                  /\ ii' = 1
                  /\ UNCHANGED pc
             ELSE /\ pc' = "beam_layer_end"
                  /\ UNCHANGED <<bi, ii>>
    /\ UNCHANGED <<swings, cfg, mws, beam, li, tuples_scores>>
    /\ UNCHANGED <<nmsVars, rulesVars, btVars, cliVars, wfVars, scoreVars, confVars>>

\* variant: the sorts of lines 56 and 65 left out
BeamLayerEndUnsorted ==
    /\ pc = "beam_layer_end"
    /\ LET nb == Take(next_beam, Max2(1, cfg.beam_width))
       IN /\ beam' = nb
          /\ IF generated >= cfg.max_candidates \/ li = Len(Layers)
             THEN /\ tuples_scores' = Take(nb, cfg.max_patterns)
                  /\ pc' = "beam_done"
                  /\ UNCHANGED <<next_beam, li, bi, ii>>
             ELSE /\ li' = li + 1
                  /\ next_beam' = << >>
                  /\ bi' = 1
                  /\ ii' = 1
                  /\ pc' = LoopEntry(nb, li + 1)
                  /\ UNCHANGED tuples_scores
    /\ UNCHANGED <<swings, cfg, mws, generated>>
    /\ UNCHANGED <<nmsVars, rulesVars, btVars, cliVars, wfVars, scoreVars, confVars>>

\* beam_search lines 56-66: end of a layer, and of the search after the last
BeamLayerEnd ==
    /\ pc = "beam_layer_end"
    /\ LET nb == Take(SortDesc(next_beam), Max2(1, cfg.beam_width))
       IN /\ beam' = nb
          /\ IF generated >= cfg.max_candidates \/ li = Len(Layers)
             THEN /\ tuples_scores' = Take(SortDesc(nb), cfg.max_patterns)
                  /\ pc' = "beam_done"
                  /\ UNCHANGED <<next_beam, li, bi, ii>>
             ELSE /\ li' = li + 1
                  /\ next_beam' = << >>
                  /\ bi' = 1
                  /\ ii' = 1
                  /\ pc' = LoopEntry(nb, li + 1)
                  /\ UNCHANGED tuples_scores
    /\ UNCHANGED <<swings, cfg, mws, generated>>
    /\ UNCHANGED <<nmsVars, rulesVars, btVars, cliVars, wfVars, scoreVars, confVars>>

\* variant: the verdict of the validator not consulted
PatternOfUnchecked(tup, legs) ==
    IF Len(tup) # 5 THEN << >>
    ELSE LET idxs == Idxs(tup)
         IN IF idxs[5] >= Len(legs) THEN << >>
            ELSE LET win == Window(legs, idxs)
                     vm == is_valid_impulse_from_monowaves(win)
                     sc == score_impulse(win, vm.w4_overlap)
                 IN <<[legs |-> win,
                       meta |-> [w4_overlap |-> vm.w4_overlap,
                                 score |-> sc,
                                 confidence |-> confidence_from_score(sc)]]>>

\* pattern built for a surviving tuple, or "none" (lines 131-147)
PatternOf(tup, legs) ==
    IF Len(tup) # 5 THEN << >>
    ELSE LET idxs == Idxs(tup)
         IN IF idxs[5] >= Len(legs) THEN << >>
            ELSE LET win == Window(legs, idxs)
                     vm == is_valid_impulse_from_monowaves(win)
                     sc == score_impulse(win, vm.w4_overlap)
                 IN IF ~vm.valid THEN << >>
                    ELSE <<[legs |-> win,
                            meta |-> [w4_overlap |-> vm.w4_overlap,
                                      score |-> sc,
                                      confidence |-> confidence_from_score(sc)]]>>

RECURSIVE PatternsOf(_, _)
PatternsOf(ts, legs) ==
    IF ts = << >> THEN << >>
    ELSE PatternOf(Head(ts).tup, legs) \o PatternsOf(Tail(ts), legs)

\* scan_impulses_from_swings lines 130-159: patterns handed to nms_by_span
ScanBuildPatterns ==
    /\ pc = "beam_done"
    /\ nms_items' = PatternsOf(tuples_scores, mws)
    /\ overlap_thresh' = cfg.nms_overlap
    /\ max_keep' = cfg.max_patterns
    /\ pc' = "nms_start"
    /\ UNCHANGED <<swings, cfg, mws, beam, next_beam, generated, li, bi, ii,
                   tuples_scores, ordered, npos, kept>>
    /\ UNCHANGED <<rulesVars, btVars, cliVars, wfVars, scoreVars, confVars>>

(***************************************************************************)
(* Deduplicator: ew6/ew/core/pruner.py                                     *)
(***************************************************************************)
\* span_fn and score_fn of the caller
SpanOf(it) ==
    IF "legs" \in DOMAIN it
    THEN <<it.legs[1].start_idx, it.legs[Len(it.legs)].end_idx>>
    ELSE it.span

ScoreOf(it) == IF "meta" \in DOMAIN it THEN it.meta.score ELSE it.score

\* overlap_ratio as a fraction [num, den] with den > 0
overlap_ratio(a_span, b_span) ==
    LET inter == Max2(0, Min2(a_span[2], b_span[2]) - Max2(a_span[1], b_span[1]))
        union == Max2(a_span[2], b_span[2]) - Min2(a_span[1], b_span[1])
    IN IF union <= 0 THEN [num |-> 0, den |-> 1]
       ELSE [num |-> inter, den |-> union]

\* variant: the comparison of line 103 taken as strict
RatioGT(r, thresh) == 1000 * r.num > thresh * r.den

\* ratio >= thresh, thresh in thousandths
RatioGE(r, thresh) == 1000 * r.num >= thresh * r.den

Suppressed(it, keptItems, thresh) ==
    \E k \in 1..Len(keptItems) :
        RatioGE(overlap_ratio(SpanOf(it), SpanOf(keptItems[k])), thresh)

Keyed(items) == [k \in 1..Len(items) |-> [score |-> ScoreOf(items[k]), it |-> items[k]]]
Unkeyed(ks) == [k \in 1..Len(ks) |-> ks[k].it]

\* variant: the items visited in input order
NmsStartUnsorted ==
    /\ pc = "nms_start"
    /\ ordered' = nms_items
    /\ kept' = << >>
    /\ npos' = 1
    /\ pc' = IF Len(nms_items) > 0 THEN "nms" ELSE "done"
    /\ UNCHANGED <<swings, cfg, mws, beam, next_beam, generated, li, bi, ii,
                   tuples_scores>>
    /\ UNCHANGED <<nms_items, overlap_thresh, max_keep>>
    /\ UNCHANGED <<rulesVars, btVars, cliVars, wfVars, scoreVars, confVars>>

\* nms_by_span line 93
NmsStart ==
    /\ pc = "nms_start"
    /\ ordered' = Unkeyed(SortDesc(Keyed(nms_items)))
    /\ kept' = << >>
    /\ npos' = 1
    /\ pc' = IF Len(nms_items) > 0 THEN "nms" ELSE "done"
    /\ UNCHANGED <<swings, cfg, mws, beam, next_beam, generated, li, bi, ii,
                   tuples_scores>>
    /\ UNCHANGED <<nms_items, overlap_thresh, max_keep>>
    /\ UNCHANGED <<rulesVars, btVars, cliVars, wfVars, scoreVars, confVars>>

\* nms_by_span lines 99-109: one item visited
NmsVisit ==
    /\ pc = "nms"
    /\ LET it == ordered[npos]
           ok == ~Suppressed(it, kept, overlap_thresh)
           k2 == IF ok THEN Append(kept, it) ELSE kept
       IN /\ kept' = k2
          /\ npos' = npos + 1
          /\ pc' = IF (ok /\ Len(k2) >= max_keep) \/ npos = Len(ordered)
                   THEN "done" ELSE "nms"
    /\ UNCHANGED <<swings, cfg, mws, beam, next_beam, generated, li, bi, ii,
                   tuples_scores>>
    /\ UNCHANGED <<nms_items, overlap_thresh, max_keep, ordered>>
    /\ UNCHANGED <<rulesVars, btVars, cliVars, wfVars, scoreVars, confVars>>

(***************************************************************************)
(* Rule validator called on its own                                        *)
(***************************************************************************)
RulesCall ==
    /\ rpc = "call"
    /\ verdict' = is_valid_impulse_from_monowaves(rmws)
    /\ rpc' = "done"
    /\ UNCHANGED rmws
    /\ UNCHANGED <<scanVars, nmsVars, btVars, cliVars, wfVars, scoreVars, confVars>>

(***************************************************************************)
(* Backtest simulator: ew6/backtest/simple.py                              *)
(* returns and costs in basis points, money in whole units, risk_fraction  *)
(* in percent, confidence and winrate in thousandths                       *)
(***************************************************************************)
\* an Optional value: None, or a value
NoneV == [none |-> TRUE, v |-> 0]
Some(x) == [none |-> FALSE, v |-> x]

\* a / b rounded down, for the fixed-point products
MulDiv(a, b, d) == (a * b) \div d

\* variant: the equity before the trade recorded as equity_after
TradeEquityBefore(i, dir, entry, exitp, ret, pnl, eq, fees, slip) ==
    [pattern_idx |-> i, direction |-> dir, entry_px |-> entry,
     exit_px |-> exitp, ret |-> ret, pnl |-> pnl, equity_after |-> eq - pnl,
     fees |-> fees, slippage |-> slip]

Trade(i, dir, entry, exitp, ret, pnl, eq, fees, slip) ==
    [pattern_idx |-> i, direction |-> dir, entry_px |-> entry,
     exit_px |-> exitp, ret |-> ret, pnl |-> pnl, equity_after |-> eq,
     fees |-> fees, slippage |-> slip]

\* _dd_from_curve, in basis points
RECURSIVE DdScan(_, _, _, _)
DdScan(c, k, peak, mdd) ==
    IF k > Len(c) THEN mdd
    ELSE LET pk == IF c[k] > peak THEN c[k] ELSE peak
             dd == IF pk > 0 THEN ((pk - c[k]) * 10000) \div pk ELSE 0
         IN DdScan(c, k + 1, pk, IF dd > mdd THEN dd ELSE mdd)

dd_from_curve(c) == IF c = << >> THEN 0 ELSE DdScan(c, 1, c[1], 0)

\* math.sqrt rounded down: the largest r in lo..hi with r * r <= v, by bisection
RECURSIVE IsqrtIn(_, _, _)
IsqrtIn(v, lo, hi) ==
    IF lo >= hi THEN lo
    ELSE LET mid == (lo + hi + 1) \div 2
         IN IF mid * mid <= v THEN IsqrtIn(v, mid, hi)
            ELSE IsqrtIn(v, lo, mid - 1)

Isqrt(v) == IF v <= 0 THEN 0 ELSE IsqrtIn(v, 0, 46340)

\* a float that may be +infinity
Fin(v) == [inf |-> FALSE, val |-> v]
PosInf == [inf |-> TRUE, val |-> 0]

\* variant: every trade sized off the initial cash
StakeFlat(eq) == MulDiv(btcfg.initial_cash, btcfg.risk_fraction, 100)

\* stake = equity * risk_fraction (line 139)
Stake(eq) == MulDiv(eq, btcfg.risk_fraction, 100)

\* the bars argument: None, an object without .df (every lookup fails), or a
\* frame of closes
NoBars == [kind |-> "none", close |-> << >>]
ListBars == [kind |-> "list", close |-> << >>]
DfBars(closes) == [kind |-> "df", close |-> closes]

\* _close_at without the clamp at the end of the frame
close_at_unclamped(bars, idx) ==
    IF bars.kind # "df" THEN NoneV
    ELSE LET i1 == IF idx < 0 THEN 0 ELSE idx
         IN IF i1 >= 0 /\ i1 < Len(bars.close) THEN Some(bars.close[i1 + 1])
            ELSE NoneV

\* _close_at (lines 69-79): the index clamped into the frame; any exception
\* (no .df, iloc on an empty frame) gives None.  iloc[-1] on a non-empty
\* frame cannot occur: a negative index was raised to 0 before.
close_at(bars, idx) ==
    IF bars.kind # "df" THEN NoneV
    ELSE LET i1 == IF idx < 0 THEN 0 ELSE idx
             i2 == IF i1 >= Len(bars.close) THEN Len(bars.close) - 1 ELSE i1
         IN IF i2 >= 0 /\ i2 < Len(bars.close) THEN Some(bars.close[i2 + 1])
            ELSE NoneV

\* the resolved entry and exit prices (lines 116-126)
BtResolved(p) ==
    LET legpx == <<p.legs[1].start_px, p.legs[Len(p.legs)].end_px>>
    IN IF btcfg.entry_mode = "bar" /\ btcfg.bars.kind # "none"
       THEN LET e == close_at(btcfg.bars, p.legs[1].start_idx)
                x == close_at(btcfg.bars, p.legs[Len(p.legs)].end_idx)
            IN IF e.none \/ x.none THEN legpx ELSE <<e.v, x.v>>
       ELSE legpx

BtEntry(p) == BtResolved(p)[1]
BtExit(p) == BtResolved(p)[2]

\* the skip conditions without the confidence filter
BtSkipsNoConf(p) ==
    \/ Len(p.legs) < 5
    \/ BtEntry(p) <= 0
    \/ BtExit(p) <= 0

\* the skip conditions without the filter on the exit price
BtSkipsEntryOnly(p) ==
    \/ p.meta.confidence < btcfg.min_confidence
    \/ Len(p.legs) < 5
    \/ BtEntry(p) <= 0

\* the pattern at position pi is skipped (lines 105-111, 128-129)
BtSkips(p) ==
    \/ p.meta.confidence < btcfg.min_confidence
    \/ Len(p.legs) < 5
    \/ BtEntry(p) <= 0
    \/ BtExit(p) <= 0

\* backtest_patterns lines 104-166: the loop body for one pattern
BtStep ==
    /\ btpc = "loop"
    /\ pi < Len(patterns)
    /\ LET p == patterns[pi + 1]
       IN IF BtSkips(p)
          THEN UNCHANGED <<equity, curve, trades, wins, rets, gross_wins,
                           gross_losses>>
          ELSE
            LET dir == IF p.legs[1].end_px - p.legs[1].start_px >= 0
                       THEN 1 ELSE -1
                entry == BtEntry(p)
                exitp == BtExit(p)
                gross_ret == ((exitp - entry) * 10000) \div entry
                signed_gross == IF dir = 1 THEN gross_ret ELSE -gross_ret
                cost_frac == 2 * (btcfg.fee_bps + btcfg.slippage_bps)
                signed_net == signed_gross - cost_frac
                stake == Stake(equity)
                pnl == MulDiv(stake, signed_net, 10000)
                equity2 == equity + pnl
                fees == MulDiv(stake, 2 * btcfg.fee_bps, 10000)
                slip == MulDiv(stake, 2 * btcfg.slippage_bps, 10000)
            IN /\ trades' = Append(trades, Trade(pi, dir, entry, exitp,
                                       signed_net, pnl, equity2, fees, slip))
               /\ equity' = equity2
               /\ curve' = Append(curve, equity2)
               /\ rets' = Append(rets, signed_net)
               /\ IF signed_net > 0
                  THEN /\ wins' = wins + 1
                       /\ gross_wins' = gross_wins + signed_net
                       /\ UNCHANGED gross_losses
                  ELSE /\ gross_losses' = gross_losses - signed_net
                       /\ UNCHANGED <<wins, gross_wins>>
    /\ pi' = pi + 1
    /\ UNCHANGED <<btpc, patterns, btcfg, report>>
    /\ UNCHANGED <<scanVars, nmsVars, rulesVars, cliVars, wfVars, scoreVars, confVars>>

\* profit factor with 0 in place of +infinity when nothing was lost
profit_factor_zero(gw, gl) ==
    IF gl > 0 THEN Fin((gw * 1000) \div gl) ELSE Fin(0)

\* line 173, in thousandths; the sums are in basis points, so "above 1e-12"
\* is "above 0"
profit_factor_(gw, gl) ==
    IF gl > 0 THEN Fin((gw * 1000) \div gl)
    ELSE IF gw > 0 THEN PosInf ELSE Fin(0)

\* sharpe-like with the population variance and no guard on the deviation
sharpe_like_unguarded(rs, mu) ==
    LET nt == Len(rs)
        var == IF nt >= 2
               THEN SumSeq([k \in 1..nt |-> (rs[k] - mu) * (rs[k] - mu)]) \div nt
               ELSE 0
        sd == IF var > 0 THEN Isqrt(var) ELSE 0
    IN IF nt >= 2 /\ sd > 0 THEN Fin((mu * 1000) \div sd) ELSE Fin(0)

\* lines 176-182, in thousandths: mean over the sample deviation (ddof 1)
sharpe_like_(rs, mu) ==
    LET nt == Len(rs)
        var == IF nt >= 2
               THEN SumSeq([k \in 1..nt |-> (rs[k] - mu) * (rs[k] - mu)])
                        \div (nt - 1)
               ELSE 0
        sd == IF var > 0 THEN Isqrt(var) ELSE 0
    IN IF nt >= 2
       THEN IF sd > 0 THEN Fin((mu * 1000) \div sd)
            ELSE IF mu > 0 THEN PosInf ELSE Fin(0)
       ELSE Fin(0)

\* backtest_patterns lines 168-198: the metrics and the report
BtFinish ==
    /\ btpc = "loop"
    /\ pi = Len(patterns)
    /\ LET nt == Len(trades)
           total_ret == IF btcfg.initial_cash > 0
                        THEN ((equity - btcfg.initial_cash) * 10000)
                                 \div btcfg.initial_cash
                        ELSE 0
           avg_ret == IF nt > 0 THEN SumSeq(rets) \div nt ELSE 0
           winrate == IF nt > 0 THEN (wins * 1000) \div nt ELSE 0
           pf == profit_factor_(gross_wins, gross_losses)
           sharpe == sharpe_like_(rets, avg_ret)
       IN report' = [initial_cash |-> btcfg.initial_cash,
                     final_equity |-> equity,
                     trades |-> nt,
                     wins |-> wins,
                     winrate |-> winrate,
                     avg_ret |-> avg_ret,
                     total_ret |-> total_ret,
                     max_drawdown |-> dd_from_curve(curve),
                     equity_curve |-> curve,
                     profit_factor |-> pf,
                     expectancy |-> avg_ret,
                     sharpe_like |-> sharpe]
    /\ btpc' = "done"
    /\ UNCHANGED <<patterns, btcfg, pi, equity, curve, trades, wins, rets,
                   gross_wins, gross_losses>>
    /\ UNCHANGED <<scanVars, nmsVars, rulesVars, cliVars, wfVars, scoreVars, confVars>>

(***************************************************************************)
(* Ranker: ew6/run/rank.py   (sub-scores and scores in thousandths)        *)
(***************************************************************************)
\* 1000 / (1 + exp(-x/1000))
Logistic(x) ==
    IF x >= 0 THEN 1000000 \div (1000 + ExpNegMilli(x))
    ELSE (1000 * ExpNegMilli(-x)) \div (1000 + ExpNegMilli(-x))

\* the in-sample part of composite_score (lines 43-55); bt_totalret and
\* bt_mdd in basis points, bt_pf and bt_sharpe possibly infinite
in_sample(meta) ==
    LET ret == Max2(0, meta.bt_totalret)
        mdd == Max2(0, meta.bt_mdd)
        pf == IF meta.bt_pf.inf THEN 40000
              ELSE Min2(Max2(0, meta.bt_pf.val), 40000)
        s_ret == 1000 - ExpNegMilli(ret \div 5)
        s_mdd == 10000000 \div (10000 + 10 * mdd)
        s_pf == 1000 - ExpNegMilli((150 * pf) \div 1000)
        s_sh == IF meta.bt_sharpe.inf THEN 1000
                ELSE Logistic((1200 * meta.bt_sharpe.val) \div 1000)
    IN (350 * s_ret + 250 * s_mdd + 250 * s_pf + 150 * s_sh) \div 1000

\* meta.get("wf_score", None) is None when the key is absent
composite_score(meta, oos_weight) ==
    IF "wf_score" \notin DOMAIN meta THEN in_sample(meta)
    ELSE LET wf_score == Max2(0, Min2(1000, meta.wf_score))
             ow == Max2(0, Min2(1000, oos_weight))
         IN ((1000 - ow) * in_sample(meta) + ow * wf_score) \div 1000

\* rank_results without the sort of line 83
rank_results_unsorted(results, top, oos_weight) ==
    LET items == [k \in 1..Len(results) |->
                    [symbol |-> results[k].symbol,
                     timeframe |-> results[k].timeframe,
                     score |-> composite_score(results[k].meta, oos_weight),
                     meta |-> results[k].meta]]
    IN Take(items, Max2(0, top))

rank_results(results, top, oos_weight) ==
    LET items == [k \in 1..Len(results) |->
                    [symbol |-> results[k].symbol,
                     timeframe |-> results[k].timeframe,
                     score |-> composite_score(results[k].meta, oos_weight),
                     meta |-> results[k].meta]]
    IN Take(SortDesc(items), Max2(0, top))

(***************************************************************************)
(* CLI job loop: ew6/cli.py main                                           *)
(***************************************************************************)
\* JobResult with its defaults, filled from the backtest report bt (or
\* "none") and the walk-forward mapping wf (empty when walk-forward was not
\* requested or raised), then to_dict()  (lines 138-165, 557-589)
JobMeta(bt, wf, wf_mode_arg) ==
    [bt_totalret |-> IF bt.ran THEN bt.total_ret ELSE 0,
     bt_mdd |-> IF bt.ran THEN bt.max_drawdown ELSE 0,
     bt_pf |-> IF bt.ran THEN bt.profit_factor ELSE Fin(0),
     bt_sharpe |-> IF bt.ran THEN bt.sharpe_like ELSE Fin(0),
     wf_mode |-> IF wf.present THEN wf_mode_arg ELSE "",
     wf_splits |-> IF wf.present THEN wf.wf_splits ELSE 0,
     wf_score |-> IF wf.present THEN wf.wf_score ELSE 0]

\* one iteration of the job loop (lines 496-589)
CliJob(bt, wf) ==
    /\ clipc = "jobs"
    /\ reco_input' = Append(reco_input,
                        [symbol |-> Len(reco_input) + 1,
                         timeframe |-> "5m",
                         meta |-> JobMeta(bt, wf, "stability")])
    /\ UNCHANGED <<clipc, rank_top, rank_oos_weight, ranked>>
    /\ UNCHANGED <<scanVars, nmsVars, rulesVars, btVars, wfVars, scoreVars, confVars>>

\* line 622
CliRank ==
    /\ clipc = "jobs"
    /\ ranked' = rank_results(reco_input, rank_top, rank_oos_weight)
    /\ clipc' = "done"
    /\ UNCHANGED <<reco_input, rank_top, rank_oos_weight>>
    /\ UNCHANGED <<scanVars, nmsVars, rulesVars, btVars, wfVars, scoreVars, confVars>>

(***************************************************************************)
(* Walk-forward evaluator: ew6/run/walkforward.py                          *)
(* fold returns in basis points, the score in thousandths                  *)
(***************************************************************************)
clamp_(x, lo, hi) == Max2(lo, Min2(hi, x))

\* _run_on_slice (lines 52-71).  It builds AnalyzerConfig(options=...),
\* unpacks three results of scan_impulses_from_swings and passes the bars to
\* backtest_patterns positionally.  AnalyzerConfig of analyzer.py has no
\* field `options` (lines 31-41), so against the pipeline of this repository
\* ("src") the call raises TypeError at line 63.  cli.py lines 360-371 name
\* the other generation of that API (options keyword, tuple result); against
\* it ("options_kw") the call returns the total return of the slice, modelled
\* as a fixed function of the slice bounds.
SliceReturn(i0, i1) == (((i0 + 2 * i1) % 3) - 1) * 500

run_on_slice(api, i0, i1) ==
    IF api = "src" THEN [raised |-> TRUE, error |-> "TypeError", r |-> 0]
    ELSE [raised |-> FALSE, error |-> "", r |-> SliceReturn(i0, i1)]

ZeroResult == [wf_splits |-> 0, wf_pos_frac |-> 0, wf_ret_mu |-> 0,
               wf_ret_sd |-> 0, wf_score |-> 0]

\* _score (lines 74-84); math.exp overflows for arguments above 709
score_(pos_frac, ret_mu, ret_sd) ==
    IF ret_sd = 0
    THEN IF ret_mu < 0 THEN [raised |-> TRUE, v |-> 0]
         ELSE [raised |-> FALSE,
               v |-> (550 * Logistic(3 * (pos_frac - 500))
                      + 450 * (IF ret_mu > 0 THEN 1000 ELSE 500)) \div 1000]
    ELSE IF (-1500 * ret_mu) \div ret_sd > 709000 THEN [raised |-> TRUE, v |-> 0]
    ELSE [raised |-> FALSE,
          v |-> (550 * Logistic(3 * (pos_frac - 500))
                 + 450 * Logistic((1500 * ret_mu) \div ret_sd)) \div 1000]

\* variant: the step taken as given
step_as_given(s) == s

\* line 132: step = max(1, step)
coerce_step(s) == Max2(1, s)

\* lines 115-147 and 160: arguments normalised, sizes inferred
WfStart ==
    /\ wfpc = "start"
    /\ LET n == wfin.n
           splits == clamp_(wfin.splits, 2, 20)
           mode == IF wfin.mode \in {"stability", "expanding", "rolling"}
                   THEN wfin.mode ELSE "stability"
           test_bars == IF wfin.test_bars.none
                        THEN Max2(n \div splits, wfin.min_bars_per_split)
                        ELSE wfin.test_bars.v
           step == coerce_step(IF wfin.step_bars.none THEN test_bars
                               ELSE wfin.step_bars.v)
           train_bars == IF wfin.train_bars.none
                         THEN Max2(wfin.min_bars_per_split, 2 * test_bars)
                         ELSE wfin.train_bars.v
           seg == Max2(n \div splits, wfin.min_bars_per_split)
           loc == [splits |-> splits, mode |-> mode, test_bars |-> test_bars,
                   step |-> step, train_bars |-> train_bars, seg |-> seg,
                   splits_eff |-> 0, k |-> 0,
                   train_end |-> Max2(train_bars, wfin.min_bars_per_split)]
       IN IF n <= 0
          THEN /\ wfpc' = "done"
               /\ wfres' = ZeroResult
               /\ UNCHANGED wfloc
          ELSE IF mode = "stability"
          THEN IF seg = 0
               THEN /\ wfpc' = "raised"
                    /\ wfres' = [error |-> "ZeroDivisionError"]
                    /\ wfloc' = loc
               ELSE /\ wfpc' = "stability"
                    /\ wfloc' = [loc EXCEPT
                                   !.splits_eff = Max2(2, Min2(20, n \div seg))]
                    /\ UNCHANGED wfres
          ELSE /\ wfpc' = "oos"
               /\ wfloc' = loc
               /\ UNCHANGED wfres
    /\ UNCHANGED <<wfin, selected, fold_ret, fold_start, fold_end>>
    /\ UNCHANGED <<scanVars, nmsVars, rulesVars, btVars, cliVars, scoreVars, confVars>>

\* the call of _run_on_slice on [i0, i1) and what follows it in the loop body
RunFold(i0, i1) ==
    LET out == run_on_slice(wfin.api, i0, i1)
    IN /\ selected' = Append(selected, <<i0, i1>>)
       /\ IF out.raised
          THEN /\ wfpc' = "raised"
               /\ wfres' = [error |-> out.error]
               /\ UNCHANGED <<fold_ret, fold_start, fold_end>>
          ELSE /\ fold_ret' = Append(fold_ret, out.r)
               /\ fold_start' = Append(fold_start, i0)
               /\ fold_end' = Append(fold_end, i1)
               /\ UNCHANGED <<wfpc, wfres>>

\* variant: each segment after the first starts one bar early
StabilityI0Overlap == Max2(0, wfloc.k * wfloc.seg - 1)

StabilityI0 == wfloc.k * wfloc.seg
\* i1 without the cut at the series end
StabilityI1Uncut == (wfloc.k + 1) * wfloc.seg

StabilityI1 == Min2(wfin.n, (wfloc.k + 1) * wfloc.seg)

\* lines 148-152: a segment shorter than min_bars_per_split is passed over
WfStabilitySkip ==
    /\ wfpc = "stability"
    /\ wfloc.k < wfloc.splits_eff
    /\ StabilityI1 - StabilityI0 < wfin.min_bars_per_split
    /\ wfloc' = [wfloc EXCEPT !.k = wfloc.k + 1]
    /\ UNCHANGED <<wfpc, wfin, selected, fold_ret, fold_start, fold_end, wfres>>
    /\ UNCHANGED <<scanVars, nmsVars, rulesVars, btVars, cliVars, scoreVars, confVars>>

\* lines 148-156: a segment evaluated
WfStabilityFold ==
    /\ wfpc = "stability"
    /\ wfloc.k < wfloc.splits_eff
    /\ StabilityI1 - StabilityI0 >= wfin.min_bars_per_split
    /\ RunFold(StabilityI0, StabilityI1)
    /\ wfloc' = [wfloc EXCEPT !.k = wfloc.k + 1]
    /\ UNCHANGED wfin
    /\ UNCHANGED <<scanVars, nmsVars, rulesVars, btVars, cliVars, scoreVars, confVars>>

\* lines 161-172: a test window evaluated
WfOosFold ==
    /\ wfpc = "oos"
    /\ wfloc.train_end + wfloc.test_bars <= wfin.n
    /\ RunFold(wfloc.train_end, wfloc.train_end + wfloc.test_bars)
    /\ wfloc' = [wfloc EXCEPT !.train_end = wfloc.train_end + wfloc.step]
    /\ UNCHANGED wfin
    /\ UNCHANGED <<scanVars, nmsVars, rulesVars, btVars, cliVars, scoreVars, confVars>>

\* lines 178-201: the aggregate over the recorded folds
WfFinish ==
    /\ \/ wfpc = "stability" /\ wfloc.k = wfloc.splits_eff
       \/ wfpc = "oos" /\ wfloc.train_end + wfloc.test_bars > wfin.n
    /\ IF fold_ret = << >>
       THEN /\ wfres' = [wf_splits |-> 0, wf_pos_frac |-> 0, wf_ret_mu |-> 0,
                         wf_ret_sd |-> 0, wf_score |-> 0, wf_mode |-> wfloc.mode]
            /\ wfpc' = "done"
       ELSE LET nf == Len(fold_ret)
                mu == SumSeq(fold_ret) \div nf
                sd == Isqrt(SumSeq([k \in 1..nf |->
                          (fold_ret[k] - mu) * (fold_ret[k] - mu)]) \div nf)
                pos == (1000 * Cardinality({k \in 1..nf : fold_ret[k] > 0})) \div nf
                sc == score_(pos, mu, sd)
            IN IF sc.raised
               THEN /\ wfres' = [error |-> "OverflowError"]
                    /\ wfpc' = "raised"
               ELSE /\ wfres' = [wf_mode |-> wfloc.mode,
                                 wf_splits |-> nf,
                                 wf_pos_frac |-> pos,
                                 wf_ret_mu |-> mu,
                                 wf_ret_sd |-> sd,
                                 wf_score |-> sc.v,
                                 wf_fold_ret |-> fold_ret,
                                 wf_fold_start |-> fold_start,
                                 wf_fold_end |-> fold_end,
                                 wf_test_bars |-> wfloc.test_bars,
                                 wf_train_bars |-> wfloc.train_bars,
                                 wf_step_bars |-> wfloc.step]
                    /\ wfpc' = "done"
    /\ UNCHANGED <<wfin, wfloc, selected, fold_ret, fold_start, fold_end>>
    /\ UNCHANGED <<scanVars, nmsVars, rulesVars, btVars, cliVars, scoreVars, confVars>>

(***************************************************************************)
(* Scorer called on its own                                                *)
(***************************************************************************)
\* analyzer.py lines 145-146: a pattern scored, the score turned into a
\* confidence
ScoreCall ==
    /\ scpc = "call"
    /\ sc_score' = score_impulse(sc_legs, sc_overlap)
    /\ sc_conf' = confidence_from_score(score_impulse(sc_legs, sc_overlap))
    /\ scpc' = "done"
    /\ UNCHANGED <<sc_legs, sc_overlap>>
    /\ UNCHANGED <<scanVars, nmsVars, rulesVars, btVars, cliVars, wfVars, confVars>>

\* confidence_from_score applied to two scores
ConfCall ==
    /\ cfpc = "call"
    /\ IF exp_overflows(cf_a) \/ exp_overflows(cf_b)
       THEN /\ cfpc' = "raised"
            /\ UNCHANGED cf_out
       ELSE /\ cf_out' = <<confidence_from_score(cf_a),
                           confidence_from_score(cf_b)>>
            /\ cfpc' = "done"
    /\ UNCHANGED <<cf_a, cf_b>>
    /\ UNCHANGED <<scanVars, nmsVars, rulesVars, btVars, cliVars, wfVars, scoreVars>>

(***************************************************************************)
(* Inputs and specifications                                               *)
(***************************************************************************)
\* swing points at consecutive indices with the given prices
SwingsOf(prices) == [k \in 1..Len(prices) |-> [idx |-> k - 1, px |-> prices[k]]]

SwingSeries ==
    { <<10, 20, 17, 29, 25, 34>>,
      <<10, 20, 17, 29, 25, 34, 30>>,
      <<10, 20, 17, 16, 29, 25, 34>>,
      <<10, 10, 20, 17, 29, 25, 34>>,
      <<10, 10, 20, 17, 29, 25, 34, 30, 33>>,
      <<10, 15, 20, 18, 17, 23, 29, 27, 25, 30, 34>> }

MinMoves == {0, 2}
Thresholds == {0, 500, 700, 1000}

AnalyzerConfigs ==
    [monowave_skip : 0..MaxSkip,
     min_leg_abs_move : MinMoves,
     max_gap : 0..MaxGap,
     beam_width : 0..MaxBeamWidth,
     max_candidates : 0..MaxCand,
     max_patterns : 0..MaxKeepPatterns,
     nms_overlap : {700}]

DefaultConfig ==
    [monowave_skip |-> 1, min_leg_abs_move |-> 0, max_gap |-> 1,
     beam_width |-> 256, max_candidates |-> 5000, max_patterns |-> 50,
     nms_overlap |-> 700]

ScanIdle ==
    /\ swings = << >>
    /\ cfg = DefaultConfig
    /\ mws = << >>
    /\ beam = << >>
    /\ next_beam = << >>
    /\ generated = 0
    /\ li = 1
    /\ bi = 1
    /\ ii = 1
    /\ tuples_scores = << >>

NmsIdle ==
    /\ nms_items = << >>
    /\ overlap_thresh = 700
    /\ max_keep = 50
    /\ ordered = << >>
    /\ npos = 1
    /\ kept = << >>

RulesIdle ==
    /\ rpc = "idle"
    /\ rmws = << >>
    /\ verdict = NoMeta

NoReport == [trades |-> -1]

ScoreIdle ==
    /\ scpc = "idle"
    /\ sc_legs = << >>
    /\ sc_overlap = FALSE
    /\ sc_score = 0
    /\ sc_conf = 0

ConfIdle ==
    /\ cfpc = "idle"
    /\ cf_a = 0
    /\ cf_b = 0
    /\ cf_out = <<0, 0>>

BtIdle ==
    /\ btpc = "idle"
    /\ patterns = << >>
    /\ btcfg = [initial_cash |-> 10000, risk_fraction |-> 100,
                min_confidence |-> 0, fee_bps |-> 0, slippage_bps |-> 0,
                entry_mode |-> "pattern", bars |-> NoBars]
    /\ pi = 0
    /\ equity = 10000
    /\ curve = <<10000>>
    /\ trades = << >>
    /\ wins = 0
    /\ rets = << >>
    /\ gross_wins = 0
    /\ gross_losses = 0
    /\ report = NoReport

CliIdle ==
    /\ clipc = "idle"
    /\ reco_input = << >>
    /\ rank_top = 5
    /\ rank_oos_weight = 600
    /\ ranked = << >>

WfIdle ==
    /\ wfpc = "idle"
    /\ wfin = [n |-> 0]
    /\ wfloc = [k |-> 0]
    /\ selected = << >>
    /\ fold_ret = << >>
    /\ fold_start = << >>
    /\ fold_end = << >>
    /\ wfres = ZeroResult

vars == <<scanVars, nmsVars, rulesVars, btVars, cliVars, wfVars, scoreVars,
          confVars>>

\* scan_impulses_from_swings on a swing series under a configuration
InitScan ==
    /\ ScoreIdle
    /\ ConfIdle
    /\ pc = "start"
    /\ \E prices \in SwingSeries : swings = SwingsOf(prices)
    /\ cfg \in AnalyzerConfigs
    /\ mws = << >>
    /\ beam = << >>
    /\ next_beam = << >>
    /\ generated = 0
    /\ li = 1
    /\ bi = 1
    /\ ii = 1
    /\ tuples_scores = << >>
    /\ NmsIdle
    /\ RulesIdle
    /\ BtIdle
    /\ CliIdle
    /\ WfIdle

NextScan ==
    \/ ScanStart
    \/ BeamGen
    \/ BeamLayerEnd
    \/ ScanBuildPatterns
    \/ NmsStart
    \/ NmsVisit

SpecScan == InitScan /\ [][NextScan]_vars

\* build_monowaves_from_swings on up to four distinct swing points in any
\* order, two of which may share an index
SwingPoints == { [idx |-> i, px |-> p] : i \in {0, 1, 2}, p \in {10, 12, 15} }

SwingLists ==
    { s \in UNION { [1..k -> SwingPoints] : k \in 0..4 } :
        \A i \in 1..Len(s) : \A j \in 1..Len(s) : i # j => s[i] # s[j] }

BuildConfigs ==
    { [DefaultConfig EXCEPT !.monowave_skip = k, !.min_leg_abs_move = m] :
        k \in {0, 1, 2}, m \in {0, 2, 4} }

InitBuild ==
    /\ pc = "build"
    /\ swings \in SwingLists
    /\ cfg \in BuildConfigs
    /\ mws = << >>
    /\ beam = << >>
    /\ next_beam = << >>
    /\ generated = 0
    /\ li = 1
    /\ bi = 1
    /\ ii = 1
    /\ tuples_scores = << >>
    /\ NmsIdle
    /\ RulesIdle
    /\ BtIdle
    /\ CliIdle
    /\ WfIdle
    /\ ScoreIdle
    /\ ConfIdle

NextBuild == BuildCall

SpecBuild == InitBuild /\ [][NextBuild]_vars

\* nms_by_span on an arbitrary list of items
ItemScores == {1, 2}

NmsItemSet ==
    { [span |-> <<a, b>>, score |-> sc] :
        a \in 0..MaxIdx, b \in 0..MaxIdx, sc \in ItemScores }

SeqsUpTo(S, n) == UNION { [1..k -> S] : k \in 0..n }

InitNms ==
    /\ ScoreIdle
    /\ ConfIdle
    /\ pc = "nms_start"
    /\ ScanIdle
    /\ nms_items \in SeqsUpTo({it \in NmsItemSet : it.span[1] < it.span[2]}, MaxItems)
    /\ overlap_thresh \in Thresholds
    /\ max_keep \in 0..MaxKeepPatterns
    /\ ordered = << >>
    /\ npos = 1
    /\ kept = << >>
    /\ RulesIdle
    /\ BtIdle
    /\ CliIdle
    /\ WfIdle

NextNms ==
    \/ NmsStart
    \/ NmsVisit

SpecNms == InitNms /\ [][NextNms]_vars


\* is_valid_impulse_from_monowaves on five arbitrary legs
RuleLegs == { MonoWave(0, 1, a, b) : a \in 1..MaxPx, b \in 1..MaxPx }

InitRules ==
    /\ ScoreIdle
    /\ ConfIdle
    /\ pc = "idle"
    /\ ScanIdle
    /\ NmsIdle
    /\ BtIdle
    /\ CliIdle
    /\ WfIdle
    /\ rpc = "call"
    /\ rmws \in [1..5 -> RuleLegs]
    /\ verdict = NoMeta

NextRules == RulesCall

SpecRules == InitRules /\ [][NextRules]_vars

\* backtest_patterns on an arbitrary list of patterns
\* a pattern of nlegs legs: first leg from entry to l1end, last leg ends at exitp
\* the legs sit at the indices i0, i0+1, ..
MkPatternAt(i0, conf, nlegs, entry, l1end, exitp) ==
    [legs |-> [k \in 1..nlegs |->
                  MonoWave(i0 + k - 1, i0 + k,
                           IF k = 1 THEN entry ELSE l1end,
                           IF k = nlegs THEN exitp ELSE l1end)],
     meta |-> [confidence |-> conf]]

MkPattern(conf, nlegs, entry, l1end, exitp) ==
    MkPatternAt(0, conf, nlegs, entry, l1end, exitp)

Confidences == {200, 800}

\* a long win, a long loss, a short win, a non-positive entry, a non-positive
\* exit
PriceCases ==
    { <<100, 110, 110>>, <<100, 110, 90>>, <<100, 90, 90>>, <<0, 10, 110>>,
      <<100, 110, 0>> }

\* five-leg patterns of every confidence and price case; a four-leg and a
\* six-leg pattern; a five-leg pattern that starts before the first bar
BtPatternSet ==
    { MkPattern(conf, 5, pc3[1], pc3[2], pc3[3]) :
        conf \in Confidences, pc3 \in PriceCases }
    \cup { MkPattern(800, nlegs, 100, 110, 110) : nlegs \in {4, 6} }
    \cup { MkPatternAt(-1, 800, 5, 100, 110, 110) }

\* fee_bps and slippage_bps
BtCosts == { <<0, 0>>, <<10, 5>> }

\* entry_mode and bars
BtBarModes ==
    { <<"pattern", NoBars>>,
      <<"bar", NoBars>>,
      <<"bar", ListBars>>,
      <<"bar", DfBars(<<100, 105, 120>>)>>,
      <<"bar", DfBars(<<0, 105, 90>>)>> }

BtConfigs ==
    { [initial_cash |-> cash, risk_fraction |-> rf, min_confidence |-> mc,
       fee_bps |-> cost[1], slippage_bps |-> cost[2],
       entry_mode |-> bm[1], bars |-> bm[2]] :
        cash \in {10000, 0, -10000}, rf \in {50, 100}, mc \in {0, 500},
        cost \in BtCosts, bm \in BtBarModes }

InitBacktest ==
    /\ ScoreIdle
    /\ ConfIdle
    /\ pc = "idle"
    /\ ScanIdle
    /\ NmsIdle
    /\ RulesIdle
    /\ CliIdle
    /\ WfIdle
    /\ btpc = "loop"
    /\ patterns \in SeqsUpTo(BtPatternSet, MaxPatterns)
    /\ btcfg \in BtConfigs
    /\ pi = 0
    /\ equity = btcfg.initial_cash
    /\ curve = <<btcfg.initial_cash>>
    /\ trades = << >>
    /\ wins = 0
    /\ rets = << >>
    /\ gross_wins = 0
    /\ gross_losses = 0
    /\ report = NoReport

NextBacktest ==
    \/ BtStep
    \/ BtFinish

SpecBacktest == InitBacktest /\ [][NextBacktest]_vars

\* the CLI job loop followed by the ranking
BtOutcomes ==
    { [ran |-> FALSE],
      [ran |-> TRUE, total_ret |-> 2000, max_drawdown |-> 500,
       profit_factor |-> Fin(2000), sharpe_like |-> Fin(1000)],
      [ran |-> TRUE, total_ret |-> -500, max_drawdown |-> 1500,
       profit_factor |-> Fin(500), sharpe_like |-> Fin(-500)],
      [ran |-> TRUE, total_ret |-> 970, max_drawdown |-> 0,
       profit_factor |-> PosInf, sharpe_like |-> Fin(0)] }

\* wf of main: {} when walk-forward was not requested or raised, else the
\* mapping returned by walk_forward_metrics
WfOutcomes ==
    { [present |-> FALSE],
      [present |-> TRUE, wf_splits |-> 0, wf_score |-> 0],
      [present |-> TRUE, wf_splits |-> 3, wf_score |-> 300],
      [present |-> TRUE, wf_splits |-> 3, wf_score |-> 800] }

OosWeights == {0, 600, 1000}

InitCli ==
    /\ ScoreIdle
    /\ ConfIdle
    /\ pc = "idle"
    /\ ScanIdle
    /\ NmsIdle
    /\ RulesIdle
    /\ BtIdle
    /\ WfIdle
    /\ clipc = "jobs"
    /\ reco_input = << >>
    /\ rank_top \in -1..MaxTop
    /\ rank_oos_weight \in OosWeights
    /\ ranked = << >>

NextCli ==
    \/ \E bt \in BtOutcomes, wf \in WfOutcomes :
          Len(reco_input) < MaxJobs /\ CliJob(bt, wf)
    \/ CliRank

SpecCli == InitCli /\ [][NextCli]_vars

\* walk_forward_metrics on a series of n bars
WfModes == {"stability", "expanding", "rolling", "other"}
PipelineApis == {"src", "options_kw"}

WfInputs ==
    [n : 0..MaxBars,
     splits : {0, 1, 2, 3},
     min_bars_per_split : {0, 1, 3},
     mode : WfModes,
     train_bars : {NoneV, Some(0), Some(3)},
     test_bars : {NoneV, Some(-1), Some(0), Some(2)},
     step_bars : {NoneV, Some(0), Some(1)},
     api : PipelineApis]
    \cup
    \* a series long enough for more than 20 segments
    [n : {42},
     splits : {25},
     min_bars_per_split : {0, 3},
     mode : {"stability"},
     train_bars : {NoneV},
     test_bars : {NoneV},
     step_bars : {NoneV},
     api : PipelineApis]

InitWf ==
    /\ ScoreIdle
    /\ ConfIdle
    /\ pc = "idle"
    /\ ScanIdle
    /\ NmsIdle
    /\ RulesIdle
    /\ BtIdle
    /\ CliIdle
    /\ wfpc = "start"
    /\ wfin \in WfInputs
    /\ wfloc = [k |-> 0]
    /\ selected = << >>
    /\ fold_ret = << >>
    /\ fold_start = << >>
    /\ fold_end = << >>
    /\ wfres = ZeroResult

NextWf ==
    \/ WfStart
    \/ WfStabilitySkip
    \/ WfStabilityFold
    \/ WfOosFold
    \/ WfFinish

SpecWf == InitWf /\ [][NextWf]_vars

\* the call runs to its end: single-threaded, no suspension
SpecWfLive == SpecWf /\ WF_vars(NextWf)

\* score_impulse on five chained legs of given magnitudes
\* the legs of an upward impulse from price 1000 with magnitudes m, the k-th
\* leg over the indices i0 + (k-1) * step .. i0 + k * step
RECURSIVE PriceAfter(_, _)
PriceAfter(m, k) ==
    IF k = 0 THEN 1000
    ELSE PriceAfter(m, k - 1) + (IF k % 2 = 1 THEN m[k] ELSE -m[k])

LegsOf(m, step) ==
    [k \in 1..5 |-> MonoWave((k - 1) * step, k * step,
                             PriceAfter(m, k - 1), PriceAfter(m, k))]

Magnitudes == {0, 3, 4, 9, 10, 12, 120}
IdxSteps == {1, 30, 60}

InitScore ==
    /\ pc = "idle"
    /\ ScanIdle
    /\ NmsIdle
    /\ RulesIdle
    /\ BtIdle
    /\ CliIdle
    /\ WfIdle
    /\ ConfIdle
    /\ scpc = "call"
    /\ \E m \in [1..5 -> Magnitudes], step \in IdxSteps : sc_legs = LegsOf(m, step)
    /\ sc_overlap \in BOOLEAN
    /\ sc_score = 0
    /\ sc_conf = 0

NextScore == ScoreCall

SpecScore == InitScore /\ [][NextScore]_vars

\* confidence_from_score on two scores: quarter steps between -1.5 and 6.5,
\* scores around the point where the binary64 result becomes 1.0, and
\* scores around the point where math.exp overflows
ScoreSamples ==
    { 250 * k - 1500 : k \in 0..32 }
        \cup {39000, 39236, 39237, 40000, 41000}
        \cup {-707282, -707283, -800000}

InitConf ==
    /\ pc = "idle"
    /\ ScanIdle
    /\ NmsIdle
    /\ RulesIdle
    /\ BtIdle
    /\ CliIdle
    /\ WfIdle
    /\ ScoreIdle
    /\ cfpc = "call"
    /\ cf_a \in ScoreSamples
    /\ cf_b \in ScoreSamples
    /\ cf_out = <<0, 0>>

NextConf == ConfCall

SpecConf == InitConf /\ [][NextConf]_vars

(***************************************************************************)
(* Properties                                                              *)
(***************************************************************************)
Sign(x) == IF x > 0 THEN 1 ELSE IF x < 0 THEN -1 ELSE 0

\* C1: the number of prefixes generated and scored by beam_search, counted
\* across all layers, never exceeds max_candidates.
C1_GeneratedWithinBudget == generated <= cfg.max_candidates

\* C2: any two distinct items kept by nms_by_span have a span overlap ratio
\* (intersection length / union length of the index spans [start, end))
\* strictly below the threshold.
SpanSet(sp) == { x \in 0..MaxIdx : sp[1] <= x /\ x < sp[2] }

C2_KeptPairsBelowThreshold ==
    \A i \in 1..Len(kept) : \A j \in 1..Len(kept) :
        i < j =>
          LET A == SpanSet(SpanOf(kept[i]))
              B == SpanSet(SpanOf(kept[j]))
          IN 1000 * Cardinality(A \cap B)
                 < overlap_thresh * Cardinality(A \cup B)

\* two overlapping items kept around a suppressed one
C2_Witness ==
    /\ pc = "done"
    /\ Len(ordered) = 3
    /\ kept = <<ordered[1], ordered[3]>>
    /\ SpanSet(SpanOf(kept[1])) \cap SpanSet(SpanOf(kept[2])) # {}

\* C3: the validator accepts five legs exactly when every direction is
\* nonzero, the directions are [s,-s,s,-s,s] with s the first leg's direction,
\* the second leg ends strictly beyond the first leg's start (above for s=+1,
\* below for s=-1) and the third leg's magnitude strictly exceeds the smaller
\* of the first and fifth; the wave-4 overlap only sets the flag.
C3_AcceptsExactlyWhenFourChecksHold ==
    rpc = "done" =>
      LET d == [k \in 1..5 |-> Sign(rmws[k].end_px - rmws[k].start_px)]
          mag == [k \in 1..5 |-> Abs(rmws[k].end_px - rmws[k].start_px)]
          s == d[1]
          nonzero == \A k \in 1..5 : d[k] # 0
          alternates == \A k \in 1..5 : d[k] = (IF k % 2 = 1 THEN s ELSE -s)
          beyond == IF s = 1 THEN rmws[2].end_px > rmws[1].start_px
                    ELSE rmws[2].end_px < rmws[1].start_px
          third == mag[3] > Min2(mag[1], mag[5])
          overlap == IF s = 1 THEN rmws[4].end_px < rmws[1].end_px
                     ELSE rmws[4].end_px > rmws[1].end_px
      IN /\ verdict.valid = (nonzero /\ alternates /\ beyond /\ third)
         /\ (~alternates => ~verdict.valid)
         /\ (verdict.valid => verdict.w4_overlap = overlap)

\* an accepted pattern whose wave 4 falls back past the end of wave 1
C3_Witness == rpc = "done" /\ verdict.valid /\ verdict.w4_overlap

\* C4: equity compounds trade by trade in input order: stake = equity after
\* the previous trade (initial_cash for the first) x risk_fraction,
\* net = direction x (exit - entry)/entry - 2 x (fee_bps + slippage_bps)/10000,
\* pnl = stake x net, equity_after = equity_before + pnl; the single long
\* trade 100 -> 110 with fee 10 bps, slippage 5 bps, cash 10000 and risk
\* fraction 1.0 yields pnl 970, final equity 10970, winrate 1.0, drawdown 0.
C4_SequentialCompounding ==
    /\ \A k \in 1..Len(trades) :
         LET t == trades[k]
             p == patterns[t.pattern_idx + 1]
             before == IF k = 1 THEN btcfg.initial_cash
                       ELSE trades[k - 1].equity_after
             entry == t.entry_px
             exitp == t.exit_px
             net == t.direction * (((exitp - entry) * 10000) \div entry)
                      - 2 * (btcfg.fee_bps + btcfg.slippage_bps)
             stake == (before * btcfg.risk_fraction) \div 100
         IN /\ t.direction = (IF p.legs[1].end_px >= p.legs[1].start_px
                              THEN 1 ELSE -1)
            /\ t.ret = net
            /\ t.pnl = (stake * net) \div 10000
            /\ t.equity_after = before + t.pnl
            /\ k > 1 => trades[k - 1].pattern_idx < t.pattern_idx
    /\ equity = (IF trades = << >> THEN btcfg.initial_cash
                 ELSE trades[Len(trades)].equity_after)
    /\ ( /\ btpc = "done"
         /\ patterns = <<MkPattern(800, 5, 100, 110, 110)>>
         /\ btcfg = [initial_cash |-> 10000, risk_fraction |-> 100,
                     min_confidence |-> 0, fee_bps |-> 10, slippage_bps |-> 5,
                     entry_mode |-> "pattern", bars |-> NoBars] )
       => /\ Len(trades) = 1
          /\ trades[1].ret = 970
          /\ trades[1].pnl = 970
          /\ report.final_equity = 10970
          /\ report.winrate = 1000
          /\ report.max_drawdown = 0

\* two trades, the second sized off the equity left by the first
C4_Witness ==
    /\ btpc = "done"
    /\ Len(trades) = 2
    /\ trades[1].pnl # 0
    /\ trades[2].pnl # 0
    /\ report.final_equity = btcfg.initial_cash + trades[1].pnl + trades[2].pnl

\* C9 (as amended): for a leg array of length n >= 5 the starting indices
\* offered at layer 0 of the beam search are exactly the integers
\* 0 <= i0 < n-4.
Layer0Expanded ==
    /\ pc = "beam_layer_end"
    /\ li = 1
    /\ generated < cfg.max_candidates
    /\ Len(mws) >= 5

Layer0Offered == { next_beam[k].tup[1] : k \in 1..Len(next_beam) }

C9_StartIndicesBelowNMinus4 ==
    /\ Layer0Expanded => Layer0Offered = 0..(Len(mws) - 5)
    /\ \A k \in 1..Len(next_beam) : next_beam[k].tup[1] \in 0..(Len(mws) - 5)

\* C9 as stated: the starting indices are exactly the integers 0 <= i0 < n-5.
C9_StartIndicesBelowNMinus5 ==
    Layer0Expanded => Layer0Offered = 0..(Len(mws) - 6)

\* layer 0 fully expanded on exactly five legs: the one start index 0
C9_Witness == Layer0Expanded /\ Len(mws) = 5 /\ Layer0Offered = {0}

\* C10: a Trade is recorded only for a pattern whose confidence is at least
\* min_confidence and which has exactly 5 legs.
C10_TradesOnlyForFiveLegs ==
    \A k \in 1..Len(trades) :
        LET p == patterns[trades[k].pattern_idx + 1]
        IN /\ p.meta.confidence >= btcfg.min_confidence
           /\ Len(p.legs) = 5


\* C5: a job for which no walk-forward evaluation produced a score (not
\* requested, or it yielded no result) is ranked by its in-sample subscore
\* alone, with no out-of-sample weighting.
C5_NoWalkForwardRankedInSample ==
    clipc = "done" =>
      \A k \in 1..Len(ranked) :
          ranked[k].meta.wf_mode = "" =>
              ranked[k].score = in_sample(ranked[k].meta)

\* C6: every fold selected by walk_forward_metrics is run without error and
\* recorded with the total return of the pipeline on its slice, so that
\* wf_splits equals the number of selected folds.
C6_SelectedFoldsAreRecorded ==
    /\ \A k \in 1..Len(selected) :
          /\ k <= Len(fold_ret)
          /\ fold_ret[k] = SliceReturn(selected[k][1], selected[k][2])
    /\ wfpc = "done" => wfres.wf_splits = Len(selected)

JobScore(k) == composite_score(reco_input[k].meta, rank_oos_weight)

C11_RankedTopNStable ==
    clipc = "done" =>
      /\ Len(ranked) = Min2(Max2(0, rank_top), Len(reco_input))
      /\ \A k \in 1..Len(ranked) :
            /\ ranked[k].symbol \in 1..Len(reco_input)
            /\ ranked[k].meta = reco_input[ranked[k].symbol].meta
            /\ ranked[k].timeframe = reco_input[ranked[k].symbol].timeframe
            /\ ranked[k].score = JobScore(ranked[k].symbol)
      /\ \A i \in 1..Len(ranked) : \A j \in 1..Len(ranked) :
            i < j =>
              /\ ranked[i].score >= ranked[j].score
              /\ ranked[i].symbol # ranked[j].symbol
              /\ ranked[i].score = ranked[j].score
                   => ranked[i].symbol < ranked[j].symbol
      /\ \A m \in 1..Len(reco_input) :
            (\A k \in 1..Len(ranked) : ranked[k].symbol # m) =>
              \A k \in 1..Len(ranked) :
                 /\ JobScore(m) <= ranked[k].score
                 /\ JobScore(m) = ranked[k].score => ranked[k].symbol < m

\* three jobs, the first two tied below the third, top 2: the third job
\* leads, the first follows and the second is cut
C11_Witness ==
    /\ clipc = "done"
    /\ Len(reco_input) = 3
    /\ rank_top = 2
    /\ JobScore(1) = JobScore(2)
    /\ JobScore(2) < JobScore(3)
    /\ Len(ranked) = 2
    /\ ranked[1].symbol = 3
    /\ ranked[2].symbol = 1

\* C12: on a series shorter than min_bars_per_split, for every mode and split
\* count and with train/test/step bar counts absent or non-negative,
\* walk_forward_metrics selects and records no fold, never raises, always has
\* a next step until it returns, and returns wf_splits, wf_score, wf_pos_frac,
\* wf_ret_mu and wf_ret_sd all 0.
NonNegOrNone(o) == o.none \/ o.v >= 0

C12_ShortSeriesNoFolds ==
    ( /\ wfpc # "idle"
      /\ wfin.n < wfin.min_bars_per_split
      /\ NonNegOrNone(wfin.train_bars)
      /\ NonNegOrNone(wfin.test_bars)
      /\ NonNegOrNone(wfin.step_bars) )
    => /\ wfpc # "raised"
       /\ selected = << >>
       /\ fold_ret = << >>
       /\ fold_start = << >>
       /\ fold_end = << >>
       /\ wfpc # "done" => ENABLED NextWf
       /\ wfpc = "done" =>
            /\ wfres.wf_splits = 0
            /\ wfres.wf_score = 0
            /\ wfres.wf_pos_frac = 0
            /\ wfres.wf_ret_mu = 0
            /\ wfres.wf_ret_sd = 0

\* two bars against a minimum of three, stability mode: both segments were
\* passed over and the zero result returned
C12_Witness ==
    /\ wfpc = "done"
    /\ wfin.n = 2
    /\ wfin.min_bars_per_split = 3
    /\ wfloc.mode = "stability"
    /\ wfloc.k = 2
    /\ wfres.wf_splits = 0
    /\ wfres.wf_score = 0

\* C13: when no pattern of the input qualifies for a trade (the input is
\* empty, or every pattern is below min_confidence, has fewer than 5 legs or
\* resolves to a non-positive entry or exit price), the report has
\* final_equity = initial_cash, trades = 0, max_drawdown = 0 and an equity
\* curve holding only initial_cash.  (Patterns of more than 5 legs are the
\* subject of C10.)
Unqualified(p) ==
    \/ p.meta.confidence < btcfg.min_confidence
    \/ Len(p.legs) < 5
    \/ BtEntry(p) <= 0
    \/ BtExit(p) <= 0

C14_ProfitFactorConvention ==
    (btpc = "done" /\ Len(trades) >= 1) =>
      /\ (\A k \in 1..Len(trades) : trades[k].ret > 0)
            => report.profit_factor = PosInf
      /\ (\A k \in 1..Len(trades) : trades[k].ret < 0)
            => report.profit_factor = Fin(0)

\* two winning trades and an infinite profit factor
C14_Witness ==
    /\ btpc = "done"
    /\ Len(trades) = 2
    /\ trades[1].ret > 0
    /\ trades[2].ret > 0
    /\ report.profit_factor = PosInf

\* C15: for a 5-leg pattern with all magnitudes positive, r2 = w2/w1 in
\* [0.236, 0.786], r3 = w3/w1 in [1.0, 2.618], r4 = w4/w3 in [0.236, 0.786],
\* w3 > min(w1, w5), no w4_overlap flag and max/min <= 10, score_impulse is
\* exactly 2 + 2 + 1.5 + 1.0 + min(span/500, 0.5); the magnitudes
\* [10, 3, 12, 4, 9] are such a case.
ScMag(k) == Abs(sc_legs[k].end_px - sc_legs[k].start_px)
ScSpan == sc_legs[5].end_idx - sc_legs[1].start_idx

ScInScenario ==
    /\ \A k \in 1..5 : ScMag(k) > 0
    /\ 236 * ScMag(1) <= 1000 * ScMag(2) /\ 1000 * ScMag(2) <= 786 * ScMag(1)
    /\ 1000 * ScMag(1) <= 1000 * ScMag(3) /\ 1000 * ScMag(3) <= 2618 * ScMag(1)
    /\ 236 * ScMag(3) <= 1000 * ScMag(4) /\ 1000 * ScMag(4) <= 786 * ScMag(3)
    /\ ScMag(3) > Min2(ScMag(1), ScMag(5))
    /\ ~sc_overlap
    /\ \A j \in 1..5 : \A k \in 1..5 : ScMag(j) <= 10 * ScMag(k)

C15_ScoreInScenario ==
    scpc = "done" =>
      /\ ScInScenario => sc_score = 6500 + Min2(2 * ScSpan, 500)
      /\ ( /\ [k \in 1..5 |-> ScMag(k)] = <<10, 3, 12, 4, 9>>
           /\ ~sc_overlap ) => ScInScenario

\* the magnitudes [10, 3, 12, 4, 9] over a span of 150 indices: 6.5 + 0.3
C15_Witness ==
    /\ scpc = "done"
    /\ [k \in 1..5 |-> ScMag(k)] = <<10, 3, 12, 4, 9>>
    /\ ~sc_overlap
    /\ ScSpan = 150
    /\ sc_score = 6800

\* C16: a pattern whose resolved entry or exit price is <= 0 is skipped on
\* its own: the step over it records no Trade, leaves equity, the equity
\* curve and the win/return tallies unchanged and moves on to the next
\* pattern; the patterns after it are still traded, and every recorded Trade
\* has entry_px > 0 and exit_px > 0.
NonPositivePrice(p) == BtEntry(p) <= 0 \/ BtExit(p) <= 0

TradedIdx == { trades[k].pattern_idx : k \in 1..Len(trades) }

C16_TradesHavePositivePrices ==
    /\ \A k \in 1..Len(trades) :
          /\ trades[k].entry_px > 0
          /\ trades[k].exit_px > 0
          /\ ~NonPositivePrice(patterns[trades[k].pattern_idx + 1])
    /\ btpc = "done" =>
          \A k \in 1..Len(patterns) :
             ( /\ patterns[k].meta.confidence >= btcfg.min_confidence
               /\ Len(patterns[k].legs) = 5
               /\ ~NonPositivePrice(patterns[k]) )
             => (k - 1) \in TradedIdx

C16_SkipStep ==
    ( /\ btpc = "loop"
      /\ pi < Len(patterns)
      /\ NonPositivePrice(patterns[pi + 1]) )
    => /\ pi' = pi + 1
       /\ btpc' = "loop"
       /\ UNCHANGED <<equity, curve, trades, wins, rets, gross_wins, gross_losses>>

C16_NonPositivePriceSkipped ==
    [] C16_TradesHavePositivePrices /\ [][C16_SkipStep]_vars

\* a pattern with exit price 0 passed over, the pattern after it traded off
\* the untouched initial cash
C16_Witness ==
    /\ btpc = "done"
    /\ Len(patterns) = 2
    /\ patterns[1].meta.confidence >= btcfg.min_confidence
    /\ Len(patterns[1].legs) = 5
    /\ BtEntry(patterns[1]) > 0
    /\ BtExit(patterns[1]) <= 0
    /\ Len(trades) = 1
    /\ trades[1].pattern_idx = 1
    /\ trades[1].pnl # 0
    /\ trades[1].equity_after = btcfg.initial_cash + trades[1].pnl
    /\ curve = <<btcfg.initial_cash, trades[1].equity_after>>

\* C17: in entry mode "bar" with a frame of L >= 1 closes, the entry price is
\* the close at clamp(first leg start_idx, 0, L-1) and the exit price the
\* close at clamp(last leg end_idx, 0, L-1); an index outside the frame stops
\* nothing (while in the loop the next pattern or the report is always
\* due); when the close lookup fails, both prices are the leg boundary
\* prices.
BarClamp(i) == Max2(0, Min2(Len(btcfg.bars.close) - 1, i))

C17_BarModeClamps ==
    btcfg.entry_mode = "bar" =>
      /\ btpc = "loop" => pi <= Len(patterns)
      /\ \A k \in 1..Len(trades) :
           LET p == patterns[trades[k].pattern_idx + 1]
               last == p.legs[Len(p.legs)]
           IN /\ (btcfg.bars.kind = "df" /\ Len(btcfg.bars.close) >= 1) =>
                   /\ trades[k].entry_px
                        = btcfg.bars.close[BarClamp(p.legs[1].start_idx) + 1]
                   /\ trades[k].exit_px
                        = btcfg.bars.close[BarClamp(last.end_idx) + 1]
              /\ btcfg.bars.kind = "list" =>
                   /\ trades[k].entry_px = p.legs[1].start_px
                   /\ trades[k].exit_px = last.end_px

\* a pattern over the indices -1..4 against three bars: entered at the first
\* close, left at the last
C17_Witness ==
    /\ btpc = "done"
    /\ btcfg.entry_mode = "bar"
    /\ btcfg.bars = DfBars(<<100, 105, 120>>)
    /\ Len(trades) = 1
    /\ patterns[trades[1].pattern_idx + 1].legs[1].start_idx = -1
    /\ patterns[trades[1].pattern_idx + 1].legs[5].end_idx = 4
    /\ trades[1].entry_px = 100
    /\ trades[1].exit_px = 120

\* C18: backtest_patterns never stops on a zero divisor: the drawdown of a
\* point is 0 while the running peak is <= 0, the profit factor is +infinity
\* or 0 when nothing was lost, sharpe_like is 0 with fewer than 2 trades and
\* +infinity (mean > 0) or 0 when the sample deviation is 0, and the total
\* return is 0 when initial_cash <= 0.
PeakAt(c, k) == CHOOSE x \in { c[j] : j \in 1..k } : \A j \in 1..k : c[j] <= x

DdAt(c, k) ==
    IF PeakAt(c, k) > 0
    THEN ((PeakAt(c, k) - c[k]) * 10000) \div PeakAt(c, k)
    ELSE 0

C18_DivisionGuards ==
    /\ btpc = "loop" => pi <= Len(patterns)
    /\ btpc = "done" =>
         /\ \A k \in 1..Len(curve) : report.max_drawdown >= DdAt(curve, k)
         /\ \E k \in 1..Len(curve) : report.max_drawdown = DdAt(curve, k)
         /\ (\A k \in 1..Len(curve) : PeakAt(curve, k) <= 0)
               => report.max_drawdown = 0
         /\ gross_losses = 0 =>
               report.profit_factor = (IF gross_wins > 0 THEN PosInf ELSE Fin(0))
         /\ Len(trades) < 2 => report.sharpe_like = Fin(0)
         /\ ( /\ Len(trades) >= 2
              /\ \A k \in 1..Len(rets) : rets[k] = rets[1] )
               => report.sharpe_like
                    = (IF rets[1] > 0 THEN PosInf ELSE Fin(0))
         /\ btcfg.initial_cash <= 0 => report.total_ret = 0

\* two trades of the same positive return: no deviation, sharpe_like infinite
C18_Witness ==
    /\ btpc = "done"
    /\ Len(trades) = 2
    /\ rets[1] = rets[2]
    /\ rets[1] > 0
    /\ report.sharpe_like = PosInf
    /\ gross_losses = 0

(***************************************************************************)
(* C19: once the candidate budget is reached, in whatever layer and also   *)
(* in the middle of one, the search stops without an error and returns the *)
(* best-scoring prefixes, at most max_patterns of them and in descending   *)
(* order, among those generated in the layer where the budget ran out; the *)
(* scan then returns, after validation and deduplication, patterns of the  *)
(* full 5-leg valid tuples among them only, and nothing when none of the   *)
(* returned tuples has 5 legs.                                             *)
(***************************************************************************)
BudgetReached == generated >= cfg.max_candidates

AfterBeam == pc \in {"beam_done", "nms_start", "nms", "done"} /\ Len(mws) >= 5

\* positions of next_beam whose prefix is among the returned ones
ReturnedFrom ==
    { j \in 1..Len(next_beam) :
        \E k \in 1..Len(tuples_scores) : tuples_scores[k] = next_beam[j] }

FullValid(t) == PatternOf(t.tup, mws) # << >>

C19_BudgetExhaustedReturnsBest ==
    (AfterBeam /\ BudgetReached) =>
        /\ Len(tuples_scores) =
              Min2(cfg.max_patterns,
                   Min2(Max2(1, cfg.beam_width), Len(next_beam)))
        /\ Cardinality(ReturnedFrom) = Len(tuples_scores)
        /\ \A k \in 1..Len(tuples_scores) : Len(tuples_scores[k].tup) = li
        /\ \A k \in 1..(Len(tuples_scores) - 1) :
              tuples_scores[k].score >= tuples_scores[k + 1].score
        /\ \A j \in (1..Len(next_beam)) \ ReturnedFrom :
              \A k \in 1..Len(tuples_scores) :
                  next_beam[j].score <= tuples_scores[k].score
        /\ pc = "done" =>
              /\ \A k \in 1..Len(kept) :
                    \E m \in 1..Len(tuples_scores) :
                        /\ Len(tuples_scores[m].tup) = 5
                        /\ FullValid(tuples_scores[m])
                        /\ <<kept[k]>> = PatternOf(tuples_scores[m].tup, mws)
              /\ \A m \in 1..Len(tuples_scores) :
                    FullValid(tuples_scores[m]) =>
                        LET p == PatternOf(tuples_scores[m].tup, mws)[1]
                        IN \/ \E k \in 1..Len(kept) : kept[k] = p
                           \/ Suppressed(p, kept, cfg.nms_overlap)
                           \/ Len(kept) >= cfg.max_patterns
              /\ (\A m \in 1..Len(tuples_scores) :
                     Len(tuples_scores[m].tup) # 5) => kept = << >>

\* the budget ran out in the middle of the last layer and a pattern is returned
C19_Witness ==
    /\ pc = "done"
    /\ BudgetReached
    /\ li = 5
    /\ Len(next_beam) < Len(beam) * Len(Layers[5])
    /\ Len(next_beam) > Len(tuples_scores)
    /\ Len(kept) >= 1

(***************************************************************************)
(* C20: confidence_from_score is strictly increasing in the score: for any *)
(* two scores a < b, confidence_from_score(a) < confidence_from_score(b).  *)
(* As stated this fails: the binary64 result is exactly 1.0 for every      *)
(* score from about 39.24 upwards, and a score below about -707.28 makes   *)
(* math.exp raise OverflowError.                                           *)
(***************************************************************************)
C20_StrictlyIncreasing ==
    (cfpc # "call" /\ cf_a < cf_b) => (cfpc = "done" /\ cf_out[1] < cf_out[2])

\* scores the model's quarter-step exponential tells apart
Resolved(s) == ConfMidpoint - 4000 <= s /\ s <= ConfMidpoint + 4000

\* C20, as the code has it: the call raises exactly when one of the scores
\* makes math.exp overflow; otherwise a < b gives confidence(a) <=
\* confidence(b), with a strict increase for scores a quarter or more apart
\* between -1.5 and 6.5, and the same value 1.0 for all scores from the
\* point where 1.0 + exp(-(score - 2.5)) rounds to 1.0.
C20_NonDecreasingSaturating ==
    /\ cfpc = "raised" => (exp_overflows(cf_a) \/ exp_overflows(cf_b))
    /\ cfpc = "done" =>
          /\ ~exp_overflows(cf_a) /\ ~exp_overflows(cf_b)
          /\ cf_a <= cf_b => cf_out[1] <= cf_out[2]
          /\ (cf_a < cf_b /\ Resolved(cf_a) /\ Resolved(cf_b)
                /\ cf_b - cf_a >= 250) => cf_out[1] < cf_out[2]
          /\ (cf_a - ConfMidpoint >= DoubleOneAbove
                /\ cf_b - ConfMidpoint >= DoubleOneAbove) =>
                    (cf_out[1] = 1000 /\ cf_out[2] = 1000)
          /\ cf_a - ConfMidpoint < DoubleOneAbove => cf_out[1] < 1000

\* two different scores with the same confidence 1.0
C20_Witness ==
    /\ cfpc = "done"
    /\ cf_a = 40000
    /\ cf_b = 41000
    /\ cf_out = <<1000, 1000>>

(***************************************************************************)
(* C21: after each fully expanded layer of beam_search every beam entry    *)
(* has been extended by every choice of the layer, and the new beam holds  *)
(* exactly the min(beam_width, number of prefixes generated in the layer)  *)
(* highest-scoring prefixes of the layer, a prefix generated earlier being *)
(* retained in preference to a later one of equal score.                   *)
(***************************************************************************)
FullyExpanded == Len(next_beam) = Len(beam) * Len(Layers[li])

ExtendedByAll ==
    LET layer == Layers[li]
    IN \A b \in 1..Len(beam) : \A i \in 1..Len(layer) :
          LET e == next_beam[(b - 1) * Len(layer) + i]
          IN /\ e.tup = beam[b].tup \o <<layer[i]>>
             /\ e.score = score_prefix(e.tup, mws)

\* number of prefixes of nb that come before the one at position j: those
\* of higher score, and those of equal score generated earlier
RankIn(nb, j) ==
    Cardinality({ i \in 1..Len(nb) :
                    \/ nb[i].score > nb[j].score
                    \/ nb[i].score = nb[j].score /\ i < j })

\* b2 holds the w first prefixes of nb in that order
KeepsTop(nb, w, b2) ==
    /\ Len(b2) = Min2(w, Len(nb))
    /\ \A j \in 1..Len(nb) :
          RankIn(nb, j) < w =>
              /\ RankIn(nb, j) + 1 <= Len(b2)
              /\ b2[RankIn(nb, j) + 1] = nb[j]

LayerStepKeeps(w) ==
    (pc = "beam_layer_end" /\ FullyExpanded) =>
        (ExtendedByAll /\ KeepsTop(next_beam, w, beam'))

\* C21 as stated: the new beam holds min(beam_width, generated) prefixes
C21_BeamKeepsBeamWidth == [][LayerStepKeeps(cfg.beam_width)]_vars

\* C21, as the code has it: the new beam holds min(max(1, beam_width),
\* generated) prefixes, so one prefix survives a beam_width of 0 or less
C21_BeamKeepsAtLeastOne == [][LayerStepKeeps(Max2(1, cfg.beam_width))]_vars

\* layer 0 was expanded in full, all its prefixes scored 0, and the beam
\* was cut to the first ones generated
C21_Witness ==
    /\ pc = "beam_gen"
    /\ li = 2
    /\ next_beam = << >>
    /\ cfg.beam_width >= 2
    /\ Len(Layers[1]) > cfg.beam_width
    /\ Len(beam) = cfg.beam_width
    /\ beam[1].tup = <<0>>
    /\ beam[2].tup = <<1>>

(***************************************************************************)
(* C22: nms_by_span returns exactly the greedy selection: the items are    *)
(* visited in descending score order, equal scores in input order; an item *)
(* is kept if and only if its overlap ratio with every item kept before it *)
(* is below the threshold; visiting stops as soon as max_keep items are    *)
(* kept.  Hence the result has at most max_keep items, is in               *)
(* non-increasing score order and, for a non-empty input, contains the     *)
(* highest-scoring item.                                                   *)
(***************************************************************************)
\* the items of s at the positions P, in order
SubAt(s, P) ==
    [k \in 1..Cardinality(P) |->
        s[CHOOSE p \in P : Cardinality({ q \in P : q < p }) = k - 1]]

Below(a, b, thresh) ==
    LET A == SpanSet(SpanOf(a))
        B == SpanSet(SpanOf(b))
    IN 1000 * Cardinality(A \cap B) < thresh * Cardinality(A \cup B)

\* P are the positions the greedy pass keeps among the first v of ordered
GreedyKept(P, v) ==
    \A p \in 1..v :
        p \in P <=>
            \A q \in P : q < p => Below(ordered[p], ordered[q], overlap_thresh)

\* the pass visits v items: all of them, or up to the keep that reached k
StopsAt(P, v, k) ==
    /\ v = Len(ordered) \/ (v \in P /\ Cardinality(P) >= k)
    /\ \A p \in P : p < v => Cardinality({ q \in P : q <= p }) < k

GreedySelection(k) ==
    /\ Len(ordered) = Len(nms_items)
    /\ \A j \in 1..Len(nms_items) :
          LET r == Cardinality({ i \in 1..Len(nms_items) :
                      \/ ScoreOf(nms_items[i]) > ScoreOf(nms_items[j])
                      \/ ScoreOf(nms_items[i]) = ScoreOf(nms_items[j]) /\ i < j })
          IN ordered[r + 1] = nms_items[j]
    /\ \E P \in SUBSET (1..(npos - 1)) :
          /\ kept = SubAt(ordered, P)
          /\ GreedyKept(P, npos - 1)
          /\ StopsAt(P, npos - 1, k)
    /\ \A i \in 1..(Len(kept) - 1) : ScoreOf(kept[i]) >= ScoreOf(kept[i + 1])
    /\ nms_items # << >> =>
          /\ Len(kept) >= 1
          /\ \A j \in 1..Len(nms_items) :
                ScoreOf(kept[1]) >= ScoreOf(nms_items[j])

NmsReturned == pc = "done" /\ swings = << >>

\* C22 as stated: the result never has more than max_keep items
C22_GreedyWithinMaxKeep ==
    NmsReturned => (GreedySelection(max_keep) /\ Len(kept) <= max_keep)

\* C22, as the code has it: the keep limit is tested after an item is kept,
\* so the first item visited is kept whatever max_keep is, and the result
\* has at most max(1, max_keep) items
C22_GreedyWithinMaxKeepOrOne ==
    NmsReturned =>
        (GreedySelection(Max2(1, max_keep)) /\ Len(kept) <= Max2(1, max_keep))

\* three items: the second is suppressed by the first, the third is kept and
\* reaches max_keep
C22_Witness ==
    /\ NmsReturned
    /\ Len(nms_items) = 3
    /\ max_keep = 2
    /\ ScoreOf(nms_items[1]) < ScoreOf(nms_items[2])
    /\ kept = <<nms_items[2], nms_items[1]>>
    /\ ordered = <<nms_items[2], nms_items[3], nms_items[1]>>

(***************************************************************************)
(* C23: in expanding and in rolling mode, with T the test window size, S   *)
(* the step and O the initial offset (defaults T = max(n div splits,       *)
(* min_bars_per_split), S = T, O = max(min_bars_per_split, 2 T)), the      *)
(* recorded folds are exactly the windows [O + k S, O + k S + T) for       *)
(* k = 0, 1, 2, ... in order, for as long as O + k S + T <= n.             *)
(***************************************************************************)
WfReturned == wfpc \in {"done", "raised"} /\ "mode" \in DOMAIN wfloc

OosT == wfloc.test_bars
OosS == IF wfin.step_bars.none THEN OosT ELSE wfloc.step
OosO == Max2(wfloc.train_bars, wfin.min_bars_per_split)

C23_OosFoldsAreTheWindows ==
    (WfReturned /\ wfloc.mode \in {"expanding", "rolling"}) =>
        /\ Len(fold_end) = Len(fold_start)
        /\ \A k \in 1..Len(fold_start) :
              /\ fold_start[k] = OosO + (k - 1) * OosS
              /\ fold_end[k] = fold_start[k] + OosT
              /\ fold_end[k] <= wfin.n
        /\ OosO + Len(fold_start) * OosS + OosT > wfin.n

(***************************************************************************)
(* C24: in stability mode the fold size is max(n div splits,               *)
(* min_bars_per_split) for the split count the caller passed, and the      *)
(* folds are taken from clamp(n div fold_size, 2, 20) consecutive segments *)
(* of that size starting at index 0.                                       *)
(***************************************************************************)
InStability ==
    /\ wfpc \in {"stability", "done", "raised"}
    /\ "mode" \in DOMAIN wfloc
    /\ wfloc.mode = "stability"

\* the folds of a stability run in which sp is the split count that sizes
\* the segments
StabilityFolds(sp) ==
    LET n == wfin.n
        seg == wfloc.seg
        Segment(j) == <<j * seg, (j + 1) * seg>>
    IN /\ sp > 0
       /\ seg = Max2(n \div sp, wfin.min_bars_per_split)
       /\ (wfpc = "raised" /\ wfres.error = "ZeroDivisionError") <=> seg = 0
       /\ seg > 0 =>
             /\ wfloc.splits_eff = clamp_(n \div seg, 2, 20)
             /\ \A k \in 1..Len(selected) :
                   /\ \E j \in 0..(wfloc.splits_eff - 1) :
                         selected[k] = Segment(j)
                   /\ selected[k][2] <= n
                   /\ k > 1 => selected[k - 1][1] < selected[k][1]
             /\ \A k \in 1..Len(fold_start) :
                   <<fold_start[k], fold_end[k]>> = selected[k]
             /\ wfpc = "done" =>
                   \A j \in 0..(wfloc.splits_eff - 1) :
                       (Min2(n, (j + 1) * seg) - j * seg
                            >= wfin.min_bars_per_split) =>
                           \E k \in 1..Len(fold_start) :
                               <<fold_start[k], fold_end[k]>> = Segment(j)

Sentinels == {SentOverflow, SentInvalid, SentAlternation}

\* sum(gap - 1) over the four gaps of a full tuple: the legs passed over
SkippedLegs(tup) == Idxs(tup)[5] - Idxs(tup)[1] - 4

BeamScoreOk(e) ==
    IF Len(e.tup) < 5 THEN e.score \in Sentinels \cup {0}
    ELSE \/ e.score \in Sentinels
         \/ LET win == Window(mws, Idxs(e.tup))
                vm == is_valid_impulse_from_monowaves(win)
            IN /\ vm.valid
               /\ e.score = score_impulse(win, vm.w4_overlap)
                              - 50 * SkippedLegs(e.tup)

MetaScoreOk(p) ==
    /\ p.meta.score = score_impulse(p.legs, p.meta.w4_overlap)
    /\ \E m \in 1..Len(tuples_scores) :
          LET t == tuples_scores[m]
          IN /\ Len(t.tup) = 5
             /\ p.legs = Window(mws, Idxs(t.tup))
             /\ t.score = p.meta.score - 50 * SkippedLegs(t.tup)

C25_GapPenaltyOnBeamScoreOnly ==
    (pc # "idle" /\ pc # "start") =>
        /\ \A k \in 1..Len(beam) : BeamScoreOk(beam[k])
        /\ \A k \in 1..Len(next_beam) : BeamScoreOk(next_beam[k])
        /\ \A k \in 1..Len(tuples_scores) : BeamScoreOk(tuples_scores[k])
        /\ \A k \in 1..Len(nms_items) : MetaScoreOk(nms_items[k])
        /\ \A k \in 1..Len(ordered) : MetaScoreOk(ordered[k])
        /\ \A k \in 1..(Len(ordered) - 1) :
              ordered[k].meta.score >= ordered[k + 1].meta.score
        /\ \A k \in 1..Len(kept) : MetaScoreOk(kept[k])

\* a returned pattern that passes over a leg: its tuple scored 0.05 below
\* the score in its meta
C25_Witness ==
    /\ pc = "done"
    /\ Len(kept) >= 1
    /\ \E m \in 1..Len(tuples_scores) :
          /\ Len(tuples_scores[m].tup) = 5
          /\ kept[1].legs = Window(mws, Idxs(tuples_scores[m].tup))
          /\ SkippedLegs(tuples_scores[m].tup) = 1
          /\ tuples_scores[m].score = kept[1].meta.score - 50

(***************************************************************************)
(* C26: build_monowaves_from_swings with skip k >= 0 and minimum move      *)
(* m >= 0, on at least 2 swing points, sorts the points by index, keeps    *)
(* the points at sorted positions 0, k+1, 2(k+1), ... plus the last point  *)
(* when the stride does not land on it, forms one leg between each         *)
(* consecutive pair of kept points and returns exactly the legs with       *)
(* |end_px - start_px| >= m; on fewer than 2 points it returns the empty   *)
(* list.                                                                   *)
(***************************************************************************)
\* the points in ascending index order, equal indices in input order
PointsByIndex ==
    [r \in 1..Len(swings) |->
        swings[CHOOSE j \in 1..Len(swings) :
                 Cardinality({ i \in 1..Len(swings) :
                                 \/ swings[i].idx < swings[j].idx
                                 \/ swings[i].idx = swings[j].idx /\ i < j })
                   = r - 1]]

\* sorted positions (from 1) that are kept
KeptPositions ==
    { p \in 1..Len(swings) : (p - 1) % (cfg.monowave_skip + 1) = 0 }
        \cup {Len(swings)}

LargeEnough(leg) == Abs(leg.end_px - leg.start_px) >= cfg.min_leg_abs_move

ExpectedLegs ==
    LET keptPts == SubAt(PointsByIndex, KeptPositions)
        legs == [k \in 1..(Len(keptPts) - 1) |->
                    [start_idx |-> keptPts[k].idx,
                     end_idx |-> keptPts[k + 1].idx,
                     start_px |-> keptPts[k].px,
                     end_px |-> keptPts[k + 1].px]]
    IN SelectSeq(legs, LargeEnough)

PositionsOf(leg) == { i \in 0..(Len(mws) - 1) : mws[i + 1] = leg }

StartsEarly(p) ==
    \A i \in PositionsOf(p.legs[1]) : i < Max2(1, cfg.beam_width)

C27_FirstLegWithinBeamWidth ==
    (pc # "idle" /\ pc # "start") =>
        /\ \A k \in 1..Len(next_beam) :
              /\ Len(next_beam[k].tup) = 1 => next_beam[k].score = 0
              /\ Len(next_beam[k].tup) > 1 =>
                    next_beam[k].tup[1] < Max2(1, cfg.beam_width)
        /\ \A k \in 1..Len(beam) :
              Len(beam[k].tup) >= 1 => beam[k].tup[1] < Max2(1, cfg.beam_width)
        /\ \A k \in 1..Len(tuples_scores) :
              Len(tuples_scores[k].tup) = 5 =>
                  tuples_scores[k].tup[1] < Max2(1, cfg.beam_width)
        /\ \A k \in 1..Len(nms_items) : StartsEarly(nms_items[k])
        /\ \A k \in 1..Len(kept) : StartsEarly(kept[k])

\* with a beam of two the impulse starting at the second leg is returned,
\* and the valid impulse on the legs at positions 3..7 is not
C27_Witness ==
    /\ pc = "done"
    /\ cfg.beam_width = 2
    /\ Len(mws) = 8
    /\ Len(kept) >= 1
    /\ PositionsOf(kept[1].legs[1]) = {1}
    /\ is_valid_impulse_from_monowaves(SubSeq(mws, 4, 8)).valid
    /\ \A k \in 1..Len(kept) : kept[k].legs[1] # mws[4]

(***************************************************************************)
(* C28: in every BacktestReport equity_curve[0] = initial_cash, the curve  *)
(* has exactly trades + 1 entries, equity_curve[k+1] is the equity_after   *)
(* of the k-th recorded Trade, final_equity is the last curve entry,       *)
(* wins <= trades, and the pattern_idx of the recorded Trades are strictly *)
(* increasing (the patterns are traded in input order).                    *)
(***************************************************************************)
C28_ReportCurveMatchesTrades ==
    btpc = "done" =>
        LET c == report.equity_curve
        IN /\ c[1] = btcfg.initial_cash
           /\ report.initial_cash = btcfg.initial_cash
           /\ report.trades = Len(trades)
           /\ Len(c) = report.trades + 1
           /\ \A k \in 1..Len(trades) : c[k + 1] = trades[k].equity_after
           /\ report.final_equity = c[Len(c)]
           /\ 0 <= report.wins /\ report.wins <= report.trades
           /\ \A k \in 1..Len(trades) :
                 /\ trades[k].pattern_idx \in 0..(Len(patterns) - 1)
                 /\ k > 1 => trades[k - 1].pattern_idx < trades[k].pattern_idx

\* two patterns traded, one won and one lost
C28_Witness ==
    /\ btpc = "done"
    /\ Len(patterns) = 2
    /\ Len(trades) = 2
    /\ trades[1].pattern_idx = 0
    /\ trades[2].pattern_idx = 1
    /\ report.wins = 1
    /\ report.equity_curve[2] # report.equity_curve[1]
    /\ report.equity_curve[3] # report.equity_curve[2]

(***************************************************************************)
(* C29: every pattern returned by scan_impulses_from_swings has exactly 5  *)
(* legs taken from the leg array at strictly increasing positions, each    *)
(* consecutive position gap in [1, max_gap + 1] and the last position      *)
(* below n; it is accepted by the rule validator, its leg directions       *)
(* alternating from the sign of its first leg; it carries a score and a    *)
(* confidence in its meta; and, the swing points having strictly           *)
(* increasing indices, its legs have strictly increasing start_idx.        *)
(***************************************************************************)
SwingIndicesIncrease ==
    \A k \in 1..(Len(swings) - 1) : swings[k].idx < swings[k + 1].idx

\* 0-based position of a leg of the leg array
PosOf(leg) == CHOOSE i \in 0..(Len(mws) - 1) : mws[i + 1] = leg

WellFormedPattern(p) ==
    /\ Len(p.legs) = 5
    /\ \A j \in 1..5 : \E i \in 1..Len(mws) : mws[i] = p.legs[j]
    /\ \A j \in 1..4 :
          /\ PosOf(p.legs[j + 1]) - PosOf(p.legs[j]) >= 1
          /\ PosOf(p.legs[j + 1]) - PosOf(p.legs[j]) <= cfg.max_gap + 1
    /\ PosOf(p.legs[5]) < Len(mws)
    /\ is_valid_impulse_from_monowaves(p.legs).valid
    /\ LET s == Sign(p.legs[1].end_px - p.legs[1].start_px)
       IN /\ s # 0
          /\ \A j \in 1..5 :
                Sign(p.legs[j].end_px - p.legs[j].start_px)
                    = (IF j % 2 = 1 THEN s ELSE -s)
    /\ {"score", "confidence"} \subseteq DOMAIN p.meta
    /\ p.meta.confidence = confidence_from_score(p.meta.score)
    /\ SwingIndicesIncrease =>
          \A j \in 1..4 : p.legs[j].start_idx < p.legs[j + 1].start_idx

C29_ReturnedPatternsWellFormed ==
    (pc # "idle" /\ pc # "start") =>
        /\ \A k \in 1..Len(nms_items) : WellFormedPattern(nms_items[k])
        /\ \A k \in 1..Len(kept) : WellFormedPattern(kept[k])

\* a returned pattern whose third leg is two positions after its second
C29_Witness ==
    /\ pc = "done"
    /\ cfg.max_gap = 2
    /\ Len(kept) >= 1
    /\ PosOf(kept[1].legs[2]) - PosOf(kept[1].legs[1]) = 1
    /\ PosOf(kept[1].legs[3]) - PosOf(kept[1].legs[2]) = 2
    /\ WellFormedPattern(kept[1])

(***************************************************************************)
(* C30: the fold-selection loop of walk_forward_metrics terminates for     *)
(* every series length, mode and explicit train/test/step bar count, zero  *)
(* and negative ones included: in expanding and rolling mode the step is   *)
(* at least 1, so the end of the test window strictly increases on each    *)
(* iteration until it exceeds n; in stability mode at most 20 segments are *)
(* visited.                                                                *)
(***************************************************************************)
WfEnded == wfpc \in {"done", "raised"}

\* an iteration of the expanding/rolling loop moves the test window end up
WindowEndIncreases ==
    (wfpc = "oos" /\ wfpc' = "oos") =>
        /\ wfloc.step >= 1
        /\ wfloc'.train_end + wfloc'.test_bars
              > wfloc.train_end + wfloc.test_bars
        /\ wfloc.train_end + wfloc.test_bars <= wfin.n

SegmentsBounded ==
    wfpc = "stability" =>
        /\ wfloc.splits_eff <= 20
        /\ wfloc.k <= wfloc.splits_eff
        /\ Len(selected) <= wfloc.k

=============================================================================
